---- MODULE Spec2Model ----
(***************************************************************************)
(* Closed-loop actuation controller of the phone controller:               *)
(*   drivers/base_driver.py    safe_guard                                  *)
(*   drivers/serial_driver.py  SerialDriver (transform, queue, executor)   *)
(*   drivers/wifi_driver.py    WiFiDriver (HTTP motion requests)           *)
(*   tactical/autoglm_driver.py AutoGLMDriver.execute_step                 *)
(*   runtime/task_runtime_v2.py TaskRuntime.execute                        *)
(*   gui/motor_control_gui.py  MotorControlGUI command queue               *)
(*   tactical/micro_loop.py    execute_step (the first micro loop)         *)
(*   tactical/vision_adapter.py VisionAdapter (planner replies)            *)
(*   runtime/task_runtime.py   TaskRuntime.execute, create_runtime         *)
(*                                                                         *)
(* Normalized coordinates are floats in the source.  Here a normalized     *)
(* value is an integer number of 1/NormScale units (NormScale = 10^5, the  *)
(* resolution of the "%.5f" wire format), and the arithmetic is exact:     *)
(* binary floating point rounding below that resolution is not modelled.   *)
(***************************************************************************)
EXTENDS Integers, Sequences, FiniteSets, TLC

VARIABLES
    \* ---- SerialDriver (drivers/serial_driver.py) ----
    work,             \* work area [x1, y1, x2, y2]
    connected,        \* is_connected()
    command_queue,    \* self.command_queue
    queue_seq,        \* self.queue_seq
    executing,        \* self.executing
    current_command,  \* self.current_command (NoCmd is None)
    ready_event,      \* self.ready_event (threading.Event)
    wire,             \* lines written to the serial port, in order
    devPending,       \* written lines the device has not answered yet
    cpc, creg,        \* caller threads: position and locals in tap/.../_queue_action
    epc, ecmd,        \* executor threads: position and local cmd in _execute_next
    ncalls,           \* history: number of driver calls started
    appended,         \* history: number of appends made to command_queue
    lastCall,         \* history: the last driver call, what held when it was
                      \* made and how it ended
    outcome           \* history: lifecycle state of each appended command

drvVars == <<work, connected, command_queue, queue_seq, executing,
             current_command, ready_event, wire, devPending, cpc, creg,
             epc, ecmd, ncalls, appended, lastCall, outcome>>

VARIABLES
    \* ---- WiFiDriver (drivers/wifi_driver.py) ----
    wconnected,       \* self.connected
    logged_in,        \* self.logged_in
    http,             \* GET /test_move requests received by the device, in order
    wpc, wreg,        \* caller threads: position and locals in tap / swipe
    wcalls,           \* history: number of WiFi driver calls started
    wlast             \* history: the last call of each thread, whether the
                      \* driver was logged in when it was made, the number of
                      \* requests sent before it, and what it returned

wifiVars == <<wconnected, logged_in, http, wpc, wreg, wcalls, wlast>>

VARIABLES
    \* ---- AutoGLMDriver (tactical/autoglm_driver.py) ----
    max_retries,      \* self.max_retries
    total_steps,      \* self.total_steps
    total_retries,    \* self.total_retries
    spc,              \* position inside execute_step ("none": not in a step)
    attempt,          \* loop variable of execute_step
    retries_used,     \* local retries_used
    planned,          \* local action returned by _call_autoglm_plan
    \* ---- TaskRuntime (runtime/task_runtime_v2.py) ----
    is_running,       \* self.is_running
    script,           \* the code being executed: a sequence of calls (<<>>:
                      \* no execute() in progress)
    ip,               \* index of the next call of the script
    result,           \* the dict returned by the last execute()
    \* ---- history ----
    runs,             \* number of execute() calls started
    cur,              \* what the step in progress has done so far
    lastStep,         \* the StepResult last returned and what that step did
    sv,               \* the attempt on which the driver raised SafetyError
    failedAt,         \* index of the first call of the script that failed
    ran,              \* index of the last call of the script that started
    invoked           \* driver methods called by the statement last started

stepVars == <<max_retries, total_steps, total_retries, spc, attempt,
              retries_used, planned, is_running, script, ip, result, runs,
              cur, lastStep, sv, failedAt, ran, invoked>>

VARIABLES
    \* ---- MotorControlGUI command queue (gui/motor_control_gui.py) ----
    gui_queue,        \* self.command_queue
    gui_seq,          \* self.queue_seq
    waiting_response, \* self.waiting_response
    gui_current,      \* self.current_command (NoGuiCmd is None)
    command_timer,    \* self.command_timer: TRUE while a timeout is armed
    after_exec,       \* pending root.after(100, execute_next_command) callbacks
    gui_wire,         \* lines written by MotorController, in order
    gui_calls,        \* history: number of add_command_to_queue calls
    gui_outcome       \* history: lifecycle state of each queued command

guiVars == <<gui_queue, gui_seq, waiting_response, gui_current, command_timer,
             after_exec, gui_wire, gui_calls, gui_outcome>>

VARIABLES
    \* ---- coordinate transform observed on its own ----
    probe             \* history: the last abs -> norm -> abs round trip computed

xfVars == <<probe>>

VARIABLES
    \* ---- TaskRuntime of runtime/task_runtime.py over tactical/micro_loop.py ----
    code,             \* the code given to execute(): a sequence of statements
    ip1,              \* index of the next statement of the code
    max_steps,        \* self.max_steps
    _stop_requested,  \* self._stop_requested
    step_count,       \* self.step_count
    logs,             \* self.logs: the success flag of each ExecutionLog
    result1,          \* the RuntimeResult returned by the last execute()
    mpc,              \* position inside micro_loop.execute_step ("none": outside)
    attempts,         \* local attempts
    last_error,       \* local last_error
    action,           \* local action: the MicroAction returned by vision.predict
    \* ---- history ----
    runs1,            \* number of execute() calls started
    mcur,             \* what the step in progress has done so far
    mlast,            \* how the last execute_step call ended
    mal,              \* the attempt that got a malformed or failed planner reply
    takeover,         \* the attempt whose planner reply was an explicit take-over
    ran1              \* index of the last statement that started

mlVars == <<code, ip1, max_steps, _stop_requested, step_count, logs, result1, mpc, attempts, last_error,
            action, runs1, mcur, mlast, mal, takeover, ran1>>

VARIABLES
    \* ---- the namespace a code string runs in (both runtimes) ----
    sandbox,          \* which TaskRuntime runs the code: "v1" or "v2" ("": none)
    stmts,            \* the statements of the code
    sip,              \* index of the next statement
    reached,          \* history: facilities the code got hold of
    verdict          \* history: the success flag returned by execute()

sbxVars == <<sandbox, stmts, sip, reached, verdict>>

VARIABLES
    \* ---- TaskRuntime.stop() of runtime/task_runtime_v2.py ----
    halted,           \* history: the stop() call made during a run, and the
                      \* value of total_steps at that moment
    before            \* history: the driver's counters when the current
                      \* execute() began

haltVars == <<halted, before>>

\* state of the components added after the four above
auxVars == <<xfVars, mlVars, sbxVars, haltVars>>

vars == <<drvVars, wifiVars, stepVars, guiVars, auxVars>>

\* what the actions of one component leave alone
notSbx == <<drvVars, wifiVars, stepVars, guiVars, xfVars, mlVars, haltVars>>
notMl == <<drvVars, wifiVars, stepVars, guiVars, xfVars, sbxVars, haltVars>>
notDrv == <<wifiVars, stepVars, guiVars, auxVars>>
notWifi == <<drvVars, stepVars, guiVars, auxVars>>
notStep == <<drvVars, guiVars, auxVars>>
notGui == <<drvVars, wifiVars, stepVars, auxVars>>


(***************************************************************************)
(* Bounds                                                                  *)
(***************************************************************************)
MaxCmds == 2          \* driver calls made by the concurrent callers (Spec)
MaxLiveCmds == 2      \* commands queued (driver, GUI) in SilentSpec
MaxGuardCalls == 1    \* driver calls made in the guard/transform spec
MaxRaceCmds == 3      \* driver calls made by the concurrent callers (RaceSpec)

Callers == {1, 2}
Max3(a, b, c) == IF a >= b /\ a >= c THEN a ELSE IF b >= c THEN b ELSE c
Execs == 1..Max3(Max3(MaxCmds, MaxLiveCmds, MaxGuardCalls), MaxRaceCmds, 1)

(***************************************************************************)
(* Program constants                                                       *)
(***************************************************************************)
NormScale == 100000   \* "%.5f": five decimals on the wire
DragScale == 10000    \* "%.4f": four decimals on the drag line
DefaultSpeed == 100

CLICK == 1
DOUBLE == 2
LONG == 3
DRAG == 4

DefaultWork == [x1 |-> 0, y1 |-> 0, x2 |-> 3900, y2 |-> 6300]

\* an empty slot (Python None) for a command
NoCmd == [type |-> 0, id |-> 0, tag |-> 0, x |-> 0, y |-> 0, x2 |-> 0, y2 |-> 0,
          cx |-> 0, cy |-> 0, cx2 |-> 0, cy2 |-> 0, wk |-> DefaultWork, tmp |-> 0]
NoGesture == [op |-> "none", x |-> 0, y |-> 0, x2 |-> 0, y2 |-> 0]

(***************************************************************************)
(* Pure helpers                                                            *)
(***************************************************************************)
\* Python int(): truncation toward zero of the rational a / b, b > 0
TruncDiv(a, b) == IF a >= 0 THEN a \div b ELSE -((-a) \div b)

\* "%.Nf" of the rational a / b (b > 0) in units of 1/scale: nearest integer
RoundDiv(a, b, scale) ==
    IF a >= 0 THEN (2 * a * scale + b) \div (2 * b)
              ELSE -((2 * (-a) * scale + b) \div (2 * b))

Max2(a, b) == IF a >= b THEN a ELSE b
Min2(a, b) == IF a <= b THEN a ELSE b

InRange(v) == 0 <= v /\ v <= NormScale

\* `v or kwargs.get(..) or kwargs.get(..)` with no keyword arguments given:
\* a falsy positional value (0.0) becomes None
OrNone(v) == IF v = 0 THEN {} ELSE {v}

\* safe_guard.wrapper: TRUE when the wrapper raises SafetyError
PairRaises(a, b) ==
    /\ OrNone(a) # {}
    /\ OrNone(b) # {}
    /\ (~InRange(a) \/ ~InRange(b))

safe_guard(g) ==
    IF g.op \in {"tap", "double_tap", "long_press"}
    THEN PairRaises(g.x, g.y)
    ELSE PairRaises(g.x, g.y) \/ PairRaises(g.x2, g.y2)

\* a transform that scales by the far corner and forgets the origin
NormToAbsAxisNoOrigin(n, lo, hi) == TruncDiv(n * hi, NormScale)

\* SerialDriver._norm_to_abs, one axis
NormToAbsAxis(n, lo, hi) == TruncDiv(lo * NormScale + n * (hi - lo), NormScale)

_norm_to_abs(nx, ny, w) ==
    <<NormToAbsAxis(nx, w.x1, w.x2), NormToAbsAxis(ny, w.y1, w.y2)>>

\* _abs_to_norm without the clamp max(0.0, min(1.0, ...))
AbsToNormAxisUnclamped(a, lo, hi, scale) ==
    IF hi - lo > 0 THEN RoundDiv(a - lo, hi - lo, scale) ELSE 0

\* SerialDriver._abs_to_norm, one axis, as printed with the given scale
AbsToNormAxis(a, lo, hi, scale) ==
    IF hi - lo > 0
    THEN Max2(0, Min2(scale, RoundDiv(a - lo, hi - lo, scale)))
    ELSE 0

_abs_to_norm(ax, ay, w, scale) ==
    <<AbsToNormAxis(ax, w.x1, w.x2, scale), AbsToNormAxis(ay, w.y1, w.y2, scale)>>

ActionTypeOf(op) ==
    CASE op = "tap" -> CLICK
      [] op = "double_tap" -> DOUBLE
      [] op = "long_press" -> LONG
      [] OTHER -> DRAG

\* the action dict built by tap / double_tap / long_press / swipe
\* (cx, cy, cx2, cy2, wk are history: what the caller commanded, and the
\*  work area the physical point was computed from)
MakeAction(g, w) ==
    LET p1 == _norm_to_abs(g.x, g.y, w)
        p2 == _norm_to_abs(g.x2, g.y2, w)
    IN  [type |-> ActionTypeOf(g.op), id |-> 0, tag |-> 0, tmp |-> 0,
         x |-> p1[1], y |-> p1[2],
         x2 |-> IF g.op = "swipe" THEN p2[1] ELSE 0,
         y2 |-> IF g.op = "swipe" THEN p2[2] ELSE 0,
         cx |-> g.x, cy |-> g.y, cx2 |-> g.x2, cy2 |-> g.y2, wk |-> w]

Gesture(op, x, y, x2, y2) == [op |-> op, x |-> x, y |-> y, x2 |-> x2, y2 |-> y2]

\* no driver call made yet.  Of a call: the thread, the gesture, whether the
\* guard raised, whether the driver was connected, the number of commands
\* appended and of lines written before it, and what it returned
NoCall == [by |-> 0, g |-> NoGesture, raised |-> FALSE, up |-> TRUE,
           n0 |-> 0, w0 |-> 0, ret |-> ""]

(***************************************************************************)
(* SerialDriver: initial state (SerialDriver.__init__, after connect)      *)
(***************************************************************************)
DrvInit ==
    /\ work = DefaultWork
    /\ connected = TRUE
    /\ command_queue = <<>>
    /\ queue_seq = 1
    /\ executing = FALSE
    /\ current_command = NoCmd
    /\ ready_event = FALSE
    /\ wire = <<>>
    /\ devPending = 0
    /\ cpc = [t \in Callers |-> "idle"]
    /\ creg = [t \in Callers |-> NoCmd]
    /\ epc = [e \in Execs |-> "unborn"]
    /\ ecmd = [e \in Execs |-> NoCmd]
    /\ ncalls = 0
    /\ appended = 0
    /\ lastCall = NoCall
    /\ outcome = <<>>

(***************************************************************************)
(* Caller side: tap / double_tap / long_press / swipe -> _queue_action     *)
(***************************************************************************)
\* the decorated entry point: safe_guard, then _norm_to_abs, then the call
\* of _queue_action (serial_driver.py 207-251)
DriverCall(t, g) ==
    /\ cpc[t] = "idle"
    /\ ncalls' = ncalls + 1
    /\ IF safe_guard(g)
       THEN /\ lastCall' = [by |-> t, g |-> g, raised |-> TRUE, up |-> connected,
                            n0 |-> appended, w0 |-> Len(wire), ret |-> "raised"]
            /\ UNCHANGED <<cpc, creg>>
       ELSE /\ lastCall' = [by |-> t, g |-> g, raised |-> FALSE, up |-> connected,
                            n0 |-> appended, w0 |-> Len(wire), ret |-> ""]
            /\ creg' = [creg EXCEPT ![t] = MakeAction(g, work)]
            /\ cpc' = [cpc EXCEPT ![t] = "q_read"]
    /\ UNCHANGED <<work, connected, command_queue, queue_seq, executing,
                   current_command, ready_event, wire, devPending, epc, ecmd,
                   appended, outcome>>
    /\ UNCHANGED notDrv

\* queue_id = self.queue_seq                      (line 262)
QRead(t) ==
    /\ cpc[t] = "q_read"
    /\ creg' = [creg EXCEPT ![t].id = queue_seq]
    /\ cpc' = [cpc EXCEPT ![t] = "q_inc_load"]
    /\ UNCHANGED <<work, connected, command_queue, queue_seq, executing,
                   current_command, ready_event, wire, devPending, epc, ecmd,
                   ncalls, appended, lastCall, outcome>>
    /\ UNCHANGED notDrv

\* self.queue_seq += 1, the load                  (line 263)
QIncLoad(t) ==
    /\ cpc[t] = "q_inc_load"
    /\ creg' = [creg EXCEPT ![t].tmp = queue_seq]
    /\ cpc' = [cpc EXCEPT ![t] = "q_inc_store"]
    /\ UNCHANGED <<work, connected, command_queue, queue_seq, executing,
                   current_command, ready_event, wire, devPending, epc, ecmd,
                   ncalls, appended, lastCall, outcome>>
    /\ UNCHANGED notDrv

\* self.queue_seq += 1, the store                 (line 263)
QIncStore(t) ==
    /\ cpc[t] = "q_inc_store"
    /\ queue_seq' = creg[t].tmp + 1
    /\ creg' = [creg EXCEPT ![t].tmp = 0]
    /\ cpc' = [cpc EXCEPT ![t] = "q_append"]
    /\ UNCHANGED <<work, connected, command_queue, executing,
                   current_command, ready_event, wire, devPending, epc, ecmd,
                   ncalls, appended, lastCall, outcome>>
    /\ UNCHANGED notDrv

\* self.command_queue.append(action)              (line 272)
QAppend(t) ==
    /\ cpc[t] = "q_append"
    /\ appended' = appended + 1
    /\ command_queue' = Append(command_queue, [creg[t] EXCEPT !.tag = appended + 1])
    /\ outcome' = Append(outcome, "Queued")
    /\ cpc' = [cpc EXCEPT ![t] = "q_check"]
    /\ UNCHANGED <<work, connected, queue_seq, executing, creg,
                   current_command, ready_event, wire, devPending, epc, ecmd,
                   ncalls, lastCall>>
    /\ UNCHANGED notDrv

FreeExec == CHOOSE e \in Execs : epc[e] = "unborn" /\ \A f \in Execs : f < e => epc[f] # "unborn"

\* if not self.executing: Thread(target=self._execute_next).start(); return True
\*                                                (lines 276-279)
QCheck(t) ==
    /\ cpc[t] = "q_check"
    /\ IF ~executing
       THEN epc' = [epc EXCEPT ![FreeExec] = "check_queue"]
       ELSE UNCHANGED epc
    /\ cpc' = [cpc EXCEPT ![t] = "idle"]
    /\ creg' = [creg EXCEPT ![t] = NoCmd]
    /\ lastCall' = IF lastCall.by = t THEN [lastCall EXCEPT !.ret = "True"] ELSE lastCall
    /\ UNCHANGED <<work, connected, command_queue, queue_seq, executing,
                   current_command, ready_event, wire, devPending, ecmd,
                   ncalls, appended, outcome>>
    /\ UNCHANGED notDrv

(***************************************************************************)
(* Executor threads: SerialDriver._execute_next (lines 281-312)            *)
(***************************************************************************)
\* the protocol line of _execute_click / _execute_double / _execute_long /
\* _execute_drag for a popped command, under the work area in force now
ProtocolLine(cmd, w) ==
    IF cmd.type = DRAG
    THEN LET a == _abs_to_norm(cmd.x, cmd.y, w, DragScale)
             b == _abs_to_norm(cmd.x2, cmd.y2, w, DragScale)
         IN  [kind |-> "drag", w |-> w, scale |-> DragScale,
              nx |-> a[1], ny |-> a[2], nx2 |-> b[1], ny2 |-> b[2],
              click |-> 0, speed |-> 0, cmd |-> cmd, ans |-> ""]
    ELSE LET a == _abs_to_norm(cmd.x, cmd.y, w, NormScale)
         IN  [kind |-> "move_click", w |-> w, scale |-> NormScale,
              nx |-> a[1], ny |-> a[2], nx2 |-> 0, ny2 |-> 0,
              click |-> cmd.type, speed |-> DefaultSpeed, cmd |-> cmd, ans |-> ""]

\* if not self.command_queue ...: return          (line 283, first operand)
ECheckQueue(e) ==
    /\ epc[e] = "check_queue"
    /\ epc' = [epc EXCEPT ![e] = IF command_queue = <<>> THEN "returned" ELSE "check_exec"]
    /\ UNCHANGED <<work, connected, command_queue, queue_seq, executing,
                   current_command, ready_event, wire, devPending, cpc, creg,
                   ecmd, ncalls, appended, lastCall, outcome>>
    /\ UNCHANGED notDrv

\* if ... or self.executing: return               (line 283, second operand)
ECheckExec(e) ==
    /\ epc[e] = "check_exec"
    /\ epc' = [epc EXCEPT ![e] = IF executing THEN "returned" ELSE "set"]
    /\ UNCHANGED <<work, connected, command_queue, queue_seq, executing,
                   current_command, ready_event, wire, devPending, cpc, creg,
                   ecmd, ncalls, appended, lastCall, outcome>>
    /\ UNCHANGED notDrv

\* self.executing = True                          (line 286)
ESet(e) ==
    /\ epc[e] = "set"
    /\ executing' = TRUE
    /\ epc' = [epc EXCEPT ![e] = "pop"]
    /\ UNCHANGED <<work, connected, command_queue, queue_seq,
                   current_command, ready_event, wire, devPending, cpc, creg,
                   ecmd, ncalls, appended, lastCall, outcome>>
    /\ UNCHANGED notDrv

\* self.current_command = self.command_queue.pop(0); cmd = self.current_command
\* pop(0) of an empty list raises IndexError outside the try block: the thread
\* ends there, executing stays as it is           (lines 287-288)
EPop(e) ==
    /\ epc[e] = "pop"
    /\ IF command_queue = <<>>
       THEN /\ epc' = [epc EXCEPT ![e] = "crashed"]
            /\ UNCHANGED <<command_queue, current_command, ecmd, outcome>>
       ELSE /\ current_command' = Head(command_queue)
            /\ ecmd' = [ecmd EXCEPT ![e] = Head(command_queue)]
            /\ command_queue' = Tail(command_queue)
            /\ outcome' = [outcome EXCEPT ![Head(command_queue).tag] = "Executing"]
            /\ epc' = [epc EXCEPT ![e] = "send"]
    /\ UNCHANGED <<work, connected, queue_seq, executing, ready_event, wire,
                   devPending, cpc, creg, ncalls, appended, lastCall>>
    /\ UNCHANGED notDrv

\* _execute_click / _execute_double / _execute_long / _execute_drag ->
\* _send_command: nothing is written when not connected (lines 292-304, 166-187)
ESend(e) ==
    /\ epc[e] = "send"
    /\ IF connected
       THEN /\ wire' = Append(wire, ProtocolLine(ecmd[e], work))
            /\ devPending' = devPending + 1
       ELSE UNCHANGED <<wire, devPending>>
    /\ epc' = [epc EXCEPT ![e] = "clear"]
    /\ UNCHANGED <<work, connected, command_queue, queue_seq, executing,
                   current_command, ready_event, cpc, creg,
                   ecmd, ncalls, appended, lastCall, outcome>>
    /\ UNCHANGED notDrv

\* self.ready_event.clear()                       (line 307)
EClear(e) ==
    /\ epc[e] = "clear"
    /\ ready_event' = FALSE
    /\ epc' = [epc EXCEPT ![e] = "wait"]
    /\ UNCHANGED <<work, connected, command_queue, queue_seq, executing,
                   current_command, wire, devPending, cpc, creg,
                   ecmd, ncalls, appended, lastCall, outcome>>
    /\ UNCHANGED notDrv

\* self.ready_event.wait(timeout=10) returns True: the event is set
EWaitReady(e) ==
    /\ epc[e] = "wait"
    /\ ready_event
    /\ outcome' = [outcome EXCEPT ![ecmd[e].tag] = "Acknowledged"]
    /\ epc' = [epc EXCEPT ![e] = "release"]
    /\ UNCHANGED <<work, connected, command_queue, queue_seq, executing,
                   current_command, ready_event, wire, devPending, cpc, creg,
                   ecmd, ncalls, appended, lastCall>>
    /\ UNCHANGED notDrv

\* a wait without a timeout: it returns only when the event is set
EWaitUntilSet(e) ==
    /\ epc[e] = "wait"
    /\ ready_event
    /\ outcome' = [outcome EXCEPT ![ecmd[e].tag] = "TimedOut"]
    /\ epc' = [epc EXCEPT ![e] = "release"]
    /\ UNCHANGED <<work, connected, command_queue, queue_seq, executing,
                   current_command, ready_event, wire, devPending, cpc, creg,
                   ecmd, ncalls, appended, lastCall>>
    /\ UNCHANGED notDrv

\* self.ready_event.wait(timeout=10) returns False after 10 s without the event
EWaitTimeout(e) ==
    /\ epc[e] = "wait"
    /\ ~ready_event
    /\ outcome' = [outcome EXCEPT ![ecmd[e].tag] = "TimedOut"]
    /\ epc' = [epc EXCEPT ![e] = "release"]
    /\ UNCHANGED <<work, connected, command_queue, queue_seq, executing,
                   current_command, ready_event, wire, devPending, cpc, creg,
                   ecmd, ncalls, appended, lastCall>>
    /\ UNCHANGED notDrv

\* self.executing = False; self._execute_next()   (lines 311-312)
ERelease(e) ==
    /\ epc[e] = "release"
    /\ executing' = FALSE
    /\ ecmd' = [ecmd EXCEPT ![e] = NoCmd]
    /\ epc' = [epc EXCEPT ![e] = "check_queue"]
    /\ UNCHANGED <<work, connected, command_queue, queue_seq,
                   current_command, ready_event, wire, devPending, cpc, creg,
                   ncalls, appended, lastCall, outcome>>
    /\ UNCHANGED notDrv

(***************************************************************************)
(* Device and SerialDriver._response_listener (lines 189-203)              *)
(***************************************************************************)
\* the oldest written line the device has not answered, and the line marked
\* with the answer: ans is the answer when the line's command was Executing
\* at that moment, "late" otherwise (ans is history)
Oldest == Len(wire) - devPending + 1
Answered(reply) ==
    LET k == wire[Oldest].cmd.tag
    IN  [wire EXCEPT ![Oldest].ans =
            IF k # 0 /\ outcome[k] = "Executing" THEN reply ELSE "late"]

\* the device finishes a motion and prints READY; the listener thread reads
\* the line and sets the event                     (lines 195-199)
ListenerReady ==
    /\ connected
    /\ devPending > 0
    /\ devPending' = devPending - 1
    /\ wire' = Answered("READY")
    /\ ready_event' = TRUE
    /\ UNCHANGED <<work, connected, command_queue, queue_seq, executing,
                   current_command, cpc, creg, epc, ecmd,
                   ncalls, appended, lastCall, outcome>>
    /\ UNCHANGED notDrv

\* the device prints a line with ERROR; the listener reads and logs it, and
\* `'READY' in response.upper()` is false          (lines 195-199)
ListenerError ==
    /\ connected
    /\ devPending > 0
    /\ devPending' = devPending - 1
    /\ wire' = Answered("ERROR")
    /\ UNCHANGED <<work, connected, command_queue, queue_seq, executing,
                   current_command, ready_event, cpc, creg, epc, ecmd,
                   ncalls, appended, lastCall, outcome>>
    /\ UNCHANGED notDrv

\* SerialDriver.disconnect: running = False, serial.close(), connected = False
\*                                                (lines 123-129)
disconnect ==
    /\ connected
    /\ connected' = FALSE
    /\ UNCHANGED <<work, command_queue, queue_seq, executing, current_command,
                   ready_event, wire, devPending, cpc, creg, epc, ecmd,
                   ncalls, appended, lastCall, outcome>>
    /\ UNCHANGED notDrv

\* SerialDriver.reset: return self._send_command("home")  (lines 253-256,
\* 166-187)
HomeLine ==
    [kind |-> "home", w |-> work, scale |-> NormScale, nx |-> 0, ny |-> 0,
     nx2 |-> 0, ny2 |-> 0, click |-> 0, speed |-> 0, cmd |-> NoCmd, ans |-> ""]

reset(t) ==
    /\ cpc[t] = "idle"
    /\ ncalls' = ncalls + 1
    /\ lastCall' = [by |-> t, g |-> Gesture("reset", 0, 0, 0, 0), raised |-> FALSE,
                    up |-> connected, n0 |-> appended, w0 |-> Len(wire),
                    ret |-> IF connected THEN "True" ELSE "False"]
    /\ IF connected
       THEN /\ wire' = Append(wire, HomeLine)
            /\ devPending' = devPending + 1
       ELSE UNCHANGED <<wire, devPending>>
    /\ UNCHANGED <<work, connected, command_queue, queue_seq, executing,
                   current_command, ready_event, cpc, creg, epc, ecmd,
                   appended, outcome>>
    /\ UNCHANGED notDrv

(***************************************************************************)
(* SerialDriver.set_work_area (lines 137-148)                              *)
(***************************************************************************)
set_work_area(x1, y1, x2, y2) ==
    /\ work' = [x1 |-> x1, y1 |-> y1, x2 |-> x2, y2 |-> y2]
    /\ UNCHANGED <<connected, command_queue, queue_seq, executing,
                   current_command, ready_event, wire, devPending, cpc, creg,
                   epc, ecmd, ncalls, appended, lastCall, outcome>>
    /\ UNCHANGED notDrv

(***************************************************************************)
(* WiFiDriver (drivers/wifi_driver.py): every motion is one or more        *)
(* GET /test_move requests, sent by the calling thread itself              *)
(***************************************************************************)
\* kwargs.get('steps', 10) in swipe
SwipeSteps == 10

NoWifiCall == [g |-> NoGesture, call |-> 0, i |-> 0]
NoWifiRet == [op |-> "none", up |-> FALSE, h0 |-> 0, ret |-> ""]

WifiInit ==
    /\ wconnected = FALSE
    /\ logged_in = FALSE
    /\ http = <<>>
    /\ wpc = [t \in Callers |-> "idle"]
    /\ wreg = [t \in Callers |-> NoWifiCall]
    /\ wcalls = 0
    /\ wlast = [t \in Callers |-> NoWifiRet]

\* is_connected()                                 (lines 108-110)
is_connected == wconnected /\ logged_in

\* connect(): the login succeeds and the session cookie is set (lines 56-99);
\* a failed login leaves the driver as it was
WConnect ==
    /\ ~is_connected
    /\ wconnected' = TRUE
    /\ logged_in' = TRUE
    /\ UNCHANGED <<http, wpc, wreg, wcalls, wlast>>
    /\ UNCHANGED notWifi

\* disconnect(): session.close(), connected = False, logged_in = False
\*                                                (lines 101-106)
WDisconnect ==
    /\ wconnected \/ logged_in
    /\ wconnected' = FALSE
    /\ logged_in' = FALSE
    /\ UNCHANGED <<http, wpc, wreg, wcalls, wlast>>
    /\ UNCHANGED notWifi

\* x = x1 + (x2 - x1) * (i / steps); round(x, 5)  (lines 205-212)
WifiLerp(a, b, i) == RoundDiv(a * SwipeSteps + (b - a) * i, SwipeSteps, 1)

\* the request of tap: params x = round(x, 5), y = round(y, 5) (lines 162-165)
TapRequest(g, call) ==
    [call |-> call, op |-> "tap", i |-> 0, x |-> g.x, y |-> g.y]

\* the request of step i of swipe                 (lines 204-212)
SwipeRequest(g, call, i) ==
    [call |-> call, op |-> "swipe", i |-> i,
     x |-> WifiLerp(g.x, g.x2, i), y |-> WifiLerp(g.y, g.y2, i)]

\* _send_http_get: nothing is sent unless connected and logged in
\* (lines 120-148); the request log after sending r
SendHttpGet(r) == IF is_connected THEN Append(http, r) ELSE http

\* where the body of each decorated entry point starts
WifiBody(op) ==
    CASE op = "swipe" -> "swipe_get"
      [] op = "double_tap" -> "dtap_get"
      [] op = "long_press" -> "lpress_get"
      [] OTHER -> "tap_get"

\* the decorated entry points tap, double_tap, long_press and swipe:
\* safe_guard, then the body (lines 152-153, 175-176, 183-184, 191-203)
WifiCall(t, g) ==
    /\ wpc[t] = "idle"
    /\ wcalls' = wcalls + 1
    /\ wlast' = [wlast EXCEPT ![t] =
                    [op |-> g.op, up |-> is_connected, h0 |-> Len(http),
                     ret |-> IF safe_guard(g) THEN "raised" ELSE ""]]
    /\ IF safe_guard(g)
       THEN UNCHANGED <<wpc, wreg>>
       ELSE /\ wreg' = [wreg EXCEPT ![t] = [g |-> g, call |-> wcalls + 1, i |-> 0]]
            /\ wpc' = [wpc EXCEPT ![t] = WifiBody(g.op)]
    /\ UNCHANGED <<wconnected, logged_in, http>>
    /\ UNCHANGED notWifi

\* what a call returns for the result of its GET: result.get("success")
WifiResult == IF is_connected THEN "True" ELSE "False"

\* tap: one GET /test_move, then return True or False (lines 162-173)
WTapGet(t) ==
    /\ wpc[t] = "tap_get"
    /\ http' = SendHttpGet(TapRequest(wreg[t].g, wreg[t].call))
    /\ wpc' = [wpc EXCEPT ![t] = "idle"]
    /\ wreg' = [wreg EXCEPT ![t] = NoWifiCall]
    /\ wlast' = [wlast EXCEPT ![t].ret = WifiResult]
    /\ UNCHANGED <<wconnected, logged_in, wcalls>>
    /\ UNCHANGED notWifi

\* long_press: result = self.tap(...), sleep, return result (lines 186-189)
WLongPressGet(t) ==
    /\ wpc[t] = "lpress_get"
    /\ http' = SendHttpGet(TapRequest(wreg[t].g, wreg[t].call))
    /\ wpc' = [wpc EXCEPT ![t] = "idle"]
    /\ wreg' = [wreg EXCEPT ![t] = NoWifiCall]
    /\ wlast' = [wlast EXCEPT ![t].ret = WifiResult]
    /\ UNCHANGED <<wconnected, logged_in, wcalls>>
    /\ UNCHANGED notWifi

\* double_tap: self.tap(...), sleep, self.tap(...), return True: the results
\* of the two taps are not looked at               (lines 178-181)
WDoubleTapGet(t) ==
    /\ wpc[t] = "dtap_get"
    /\ http' = SendHttpGet(TapRequest(wreg[t].g, wreg[t].call))
    /\ IF wreg[t].i = 0
       THEN /\ wreg' = [wreg EXCEPT ![t].i = 1]
            /\ UNCHANGED <<wpc, wlast>>
       ELSE /\ wpc' = [wpc EXCEPT ![t] = "idle"]
            /\ wreg' = [wreg EXCEPT ![t] = NoWifiCall]
            /\ wlast' = [wlast EXCEPT ![t].ret = "True"]
    /\ UNCHANGED <<wconnected, logged_in, wcalls>>
    /\ UNCHANGED notWifi

\* reset: one GET /test_move with x = 0.0, y = 0.0; return
\* result.get("success", False)                   (lines 224-228)
WReset(t) ==
    /\ wpc[t] = "idle"
    /\ wcalls' = wcalls + 1
    /\ http' = SendHttpGet([call |-> wcalls + 1, op |-> "reset", i |-> 0,
                            x |-> 0, y |-> 0])
    /\ wlast' = [wlast EXCEPT ![t] =
                    [op |-> "reset", up |-> is_connected, h0 |-> Len(http),
                     ret |-> WifiResult]]
    /\ UNCHANGED <<wconnected, logged_in, wpc, wreg>>
    /\ UNCHANGED notWifi

\* swipe, one iteration of `for i in range(steps + 1)`: the GET of step i;
\* a failed GET returns False, the last step returns True (lines 204-222)
WSwipeGet(t) ==
    /\ wpc[t] = "swipe_get"
    /\ http' = SendHttpGet(SwipeRequest(wreg[t].g, wreg[t].call, wreg[t].i))
    /\ IF is_connected /\ wreg[t].i < SwipeSteps
       THEN /\ wpc' = [wpc EXCEPT ![t] = "swipe_sleep"]
            /\ UNCHANGED <<wreg, wlast>>
       ELSE /\ wpc' = [wpc EXCEPT ![t] = "idle"]
            /\ wreg' = [wreg EXCEPT ![t] = NoWifiCall]
            /\ wlast' = [wlast EXCEPT ![t].ret = WifiResult]
    /\ UNCHANGED <<wconnected, logged_in, wcalls>>
    /\ UNCHANGED notWifi

\* swipe: time.sleep(delay) between two steps     (lines 219-220)
WSwipeSleep(t) ==
    /\ wpc[t] = "swipe_sleep"
    /\ wreg' = [wreg EXCEPT ![t].i = @ + 1]
    /\ wpc' = [wpc EXCEPT ![t] = "swipe_get"]
    /\ UNCHANGED <<wconnected, logged_in, http, wcalls, wlast>>
    /\ UNCHANGED notWifi

(***************************************************************************)
(* AutoGLMDriver.execute_step (tactical/autoglm_driver.py, lines 167-277)  *)
(* over a WiFiDriver, the driver that has a camera                         *)
(***************************************************************************)
\* max_retries: int = 2 in __init__
DefaultMaxRetries == 2

\* the two exception classes named SafetyError: the one the drivers raise
\* (drivers/base_driver.py) and the one this module defines and names in its
\* handlers (lines 96-98); both derive from Exception only
BaseSafetyError == "drivers.base_driver.SafetyError"
AutoglmSafetyError == "tactical.autoglm_driver.SafetyError"

\* `except cls:` handles an exception of class exc
Catches(cls, exc) == cls = exc \/ cls = "Exception"

\* what _call_autoglm_plan can return: None (API error or unparsable answer),
\* Tap(0.5, 0.5), Tap(1.5, 0.5)                    (lines 279-343, 677-748)
PlanOutcomes ==
    { NoGesture,
      Gesture("tap", 50000, 50000, 0, 0),
      Gesture("tap", 150000, 50000, 0, 0) }

\* driver.screenshot(): image bytes (TRUE) or None (FALSE); None when not
\* connected, on an HTTP error or a non-image answer (WiFiDriver, 232-260)
Screenshots == IF is_connected THEN BOOLEAN ELSE {FALSE}

IdleCur == [captures |-> 0, plans |-> 0, acts |-> 0, barren |-> FALSE, r0 |-> 0, h0 |-> 0]
NoStep == [id |-> 0, success |-> FALSE, retries |-> 0, error |-> "",
           captures |-> 0, plans |-> 0, acts |-> 0, barren |-> FALSE,
           grown |-> 0, sent |-> 0]
NoViolation == [hit |-> FALSE, attempt |-> 0, retries |-> 0, sent |-> 0]
NoResult == [done |-> FALSE, success |-> FALSE, error |-> "", steps |-> 0, retries |-> 0]

\* AutoGLMDriver.__init__ with max_retries = b (lines 120-145) and
\* TaskRuntime.__init__ (task_runtime_v2.py, lines 72-87)
StepInit(b) ==
    /\ max_retries = b
    /\ total_steps = 0
    /\ total_retries = 0
    /\ spc = "none"
    /\ attempt = 0
    /\ retries_used = 0
    /\ planned = NoGesture
    /\ is_running = FALSE
    /\ script = <<>>
    /\ ip = 1
    /\ result = NoResult
    /\ runs = 0
    /\ cur = IdleCur
    /\ lastStep = NoStep
    /\ sv = NoViolation
    /\ failedAt = 0
    /\ ran = 0
    /\ invoked = {}

\* step(goal) of the script calls execute_step: total_steps += 1,
\* retries_used = 0 (task_runtime_v2.py 204-231; autoglm_driver.py 181-191)
StepCall ==
    /\ script # <<>> /\ spc = "none"
    /\ ip <= Len(script) /\ script[ip] = "step"
    /\ total_steps' = total_steps + 1
    /\ attempt' = 0
    /\ retries_used' = 0
    /\ spc' = "head"
    /\ cur' = [captures |-> 0, plans |-> 0, acts |-> 0, barren |-> TRUE,
               r0 |-> total_retries, h0 |-> Len(http)]
    /\ sv' = NoViolation
    /\ ran' = ip
    /\ lastStep' = NoStep
    /\ UNCHANGED <<max_retries, total_retries, planned, is_running, script, ip,
                   result, runs, failedAt>>
    /\ UNCHANGED wifiVars
    /\ UNCHANGED notStep
    /\ invoked' = {}

\* `continue`, or the end of the loop body: the next value of the loop variable
Continue ==
    /\ attempt' = attempt + 1
    /\ spc' = "head"
    /\ planned' = NoGesture

\* `return StepResult(success, error=error, retries=retries_used)`: back in
\* the script, at the statement after the step() call; c is what the step did
Return(success, error, c) ==
    /\ lastStep' = [id |-> total_steps, success |-> success,
                    retries |-> retries_used, error |-> error,
                    captures |-> c.captures, plans |-> c.plans, acts |-> c.acts,
                    barren |-> c.barren, grown |-> total_retries - c.r0,
                    sent |-> Len(http) - c.h0]
    /\ failedAt' = IF ~success /\ failedAt = 0 THEN ip ELSE failedAt
    /\ spc' = "none"
    /\ ip' = ip + 1
    /\ attempt' = 0
    /\ retries_used' = 0
    /\ planned' = NoGesture
    /\ cur' = IdleCur

\* a loop head that does not count the retry
AttemptBeginUncounted ==
    /\ spc = "head" /\ attempt < max_retries
    /\ spc' = "capture"
    /\ UNCHANGED <<max_retries, total_steps, total_retries, retries_used, attempt,
                   planned, is_running, script, ip, result, runs, cur, lastStep,
                   sv, failedAt, ran>>
    /\ UNCHANGED wifiVars
    /\ UNCHANGED notStep
    /\ UNCHANGED invoked

\* for attempt in range(self.max_retries): if attempt > 0: total_retries += 1;
\* retries_used = attempt                        (lines 193-197)
AttemptBegin ==
    /\ spc = "head" /\ attempt < max_retries
    /\ IF attempt > 0
       THEN total_retries' = total_retries + 1 /\ retries_used' = attempt
       ELSE UNCHANGED <<total_retries, retries_used>>
    /\ spc' = "capture"
    /\ UNCHANGED <<max_retries, total_steps, attempt, planned, is_running, script,
                   ip, result, runs, cur, lastStep, sv, failedAt, ran>>
    /\ UNCHANGED wifiVars
    /\ UNCHANGED notStep
    /\ UNCHANGED invoked

\* the loop is over: return StepResult(success=False, error="... max retries",
\* retries=retries_used)                         (lines 270-277)
Exhausted ==
    /\ spc = "head" /\ attempt >= max_retries
    /\ Return(FALSE, "MaxRetries", cur)
    /\ UNCHANGED <<max_retries, total_steps, total_retries, is_running, script,
                   result, runs, sv, ran>>
    /\ UNCHANGED wifiVars
    /\ UNCHANGED notStep
    /\ UNCHANGED invoked

\* a. Capture: screenshot = self.driver.screenshot(); None -> continue
\*                                                (lines 200-205)
Capture ==
    /\ spc = "capture"
    /\ \E shot \in Screenshots :
         IF shot
         THEN /\ spc' = "plan"
              /\ cur' = [cur EXCEPT !.captures = @ + 1]
              /\ UNCHANGED <<attempt, planned>>
         ELSE /\ Continue
              /\ cur' = [cur EXCEPT !.captures = @ + 1, !.barren = FALSE]
    /\ UNCHANGED <<max_retries, total_steps, total_retries, retries_used,
                   is_running, script, ip, result, runs, lastStep, sv, failedAt, ran>>
    /\ UNCHANGED wifiVars
    /\ UNCHANGED notStep
    /\ invoked' = invoked \cup {"screenshot"}

\* b. Plan: action = self._call_autoglm_plan(...); None -> continue
\*                                                (lines 208-213)
Plan ==
    /\ spc = "plan"
    /\ \E a \in PlanOutcomes :
         IF a = NoGesture
         THEN /\ Continue
              /\ cur' = [cur EXCEPT !.plans = @ + 1]
         ELSE /\ planned' = a
              /\ spc' = "act"
              /\ cur' = [cur EXCEPT !.plans = @ + 1, !.barren = FALSE]
              /\ UNCHANGED attempt
    /\ UNCHANGED <<max_retries, total_steps, total_retries, retries_used,
                   is_running, script, ip, result, runs, lastStep, sv, failedAt, ran>>
    /\ UNCHANGED wifiVars
    /\ UNCHANGED notStep
    /\ UNCHANGED invoked

\* c. Act: self._execute_action(action) -> self.driver.tap(x, y)  (222, 766-767).
\* The driver's guard raises drivers.base_driver.SafetyError; the handlers
\* are tried in order: `except SafetyError: raise` (256-258), then
\* `except Exception` (259-268), which returns a failed StepResult on the last
\* attempt and continues otherwise.  Without an exception the tap is sent.
Act ==
    /\ spc = "act"
    /\ IF safe_guard(planned)
       THEN /\ sv' = [hit |-> TRUE, attempt |-> attempt,
                      retries |-> total_retries, sent |-> Len(http)]
            /\ UNCHANGED http
            /\ IF Catches(AutoglmSafetyError, BaseSafetyError)
               THEN /\ spc' = "raised"
                    /\ failedAt' = IF failedAt = 0 THEN ip ELSE failedAt
                    /\ UNCHANGED <<attempt, retries_used, planned, ip, cur, lastStep>>
               ELSE IF attempt = max_retries - 1
                    THEN Return(FALSE, BaseSafetyError, cur)
                    ELSE /\ Continue
                         /\ failedAt' = IF failedAt = 0 THEN ip ELSE failedAt
                         /\ UNCHANGED <<retries_used, ip, cur, lastStep>>
       ELSE /\ http' = SendHttpGet(TapRequest(planned, 0))
            /\ cur' = [cur EXCEPT !.acts = @ + 1]
            /\ spc' = "vcapture"
            /\ UNCHANGED <<attempt, retries_used, planned, ip, lastStep, sv, failedAt>>
    /\ UNCHANGED <<max_retries, total_steps, total_retries, is_running, script,
                   result, runs, ran>>
    /\ UNCHANGED <<wconnected, logged_in, wpc, wreg, wcalls, wlast>>
    /\ UNCHANGED notStep
    /\ invoked' = invoked \cup {"tap"}

\* d. Verify: sleep, new_screenshot = self.driver.screenshot(); None -> continue
\*                                                (lines 228-233)
VerifyCapture ==
    /\ spc = "vcapture"
    /\ \E shot \in Screenshots :
         IF shot
         THEN spc' = "verify" /\ UNCHANGED <<attempt, planned>>
         ELSE Continue
    /\ cur' = [cur EXCEPT !.captures = @ + 1]
    /\ UNCHANGED <<max_retries, total_steps, total_retries, retries_used,
                   is_running, script, ip, result, runs, lastStep, sv, failedAt, ran>>
    /\ UNCHANGED wifiVars
    /\ UNCHANGED notStep
    /\ invoked' = invoked \cup {"screenshot"}

\* verified, state_desc = self._call_autoglm_verify_with_state(...): verified
\* returns StepResult(success=True, retries=retries_used), otherwise continue
\*                                                (lines 236-253)
Verify ==
    /\ spc = "verify"
    /\ \E verified \in BOOLEAN :
         IF verified
         THEN Return(TRUE, "", cur)
         ELSE /\ Continue
              /\ UNCHANGED <<retries_used, ip, cur, lastStep, failedAt>>
    /\ UNCHANGED <<max_retries, total_steps, total_retries, is_running, script,
                   result, runs, sv, ran>>
    /\ UNCHANGED wifiVars
    /\ UNCHANGED notStep
    /\ UNCHANGED invoked

(***************************************************************************)
(* TaskRuntime.execute (runtime/task_runtime_v2.py, lines 89-195): the     *)
(* script is a straight line of step / ask / checkpoint calls              *)
(***************************************************************************)
MaxScriptLen == 2     \* calls in one script
MaxBudget == 2        \* largest max_retries
MaxRuns == 2          \* execute() calls

Calls == {"step", "ask", "checkpoint"}
Scripts == UNION { [1..n -> Calls] : n \in 1..MaxScriptLen }

\* execute(code): is_running = True, last_error = None, exec(code, ...)
\*                                                (lines 111-125)
Execute ==
    /\ script = <<>> /\ runs < MaxRuns
    /\ \E s \in Scripts : script' = s
    /\ ip' = 1
    /\ is_running' = TRUE
    /\ result' = NoResult
    /\ runs' = runs + 1
    /\ failedAt' = 0
    /\ ran' = 0
    /\ sv' = NoViolation
    /\ lastStep' = NoStep
    /\ before' = [steps |-> total_steps, retries |-> total_retries]
    /\ UNCHANGED <<max_retries, total_steps, total_retries, spc, attempt,
                   retries_used, planned, cur>>
    /\ UNCHANGED wifiVars
    /\ UNCHANGED <<drvVars, guiVars, xfVars, mlVars, sbxVars, halted>>
    /\ invoked' = {}

\* an ask() that also moves the arm to the middle of the screen
AskWithTap ==
    /\ script # <<>> /\ spc = "none"
    /\ ip <= Len(script) /\ script[ip] = "ask"
    /\ ip' = ip + 1
    /\ ran' = ip
    /\ lastStep' = NoStep
    /\ UNCHANGED <<max_retries, total_steps, total_retries, spc, attempt,
                   retries_used, planned, is_running, script, result, runs, cur,
                   sv, failedAt>>
    /\ http' = SendHttpGet(TapRequest(Gesture("tap", 50000, 50000, 0, 0), 0))
    /\ UNCHANGED <<wconnected, logged_in, wpc, wreg, wcalls, wlast>>
    /\ UNCHANGED notStep
    /\ invoked' = {"screenshot", "tap"}

\* ask(question) of the script -> AutoGLMDriver.ask: a screenshot and a
\* question to the model, no motion (task_runtime_v2.py 236-256;
\* autoglm_driver.py 543-605)
Ask ==
    /\ script # <<>> /\ spc = "none"
    /\ ip <= Len(script) /\ script[ip] = "ask"
    /\ ip' = ip + 1
    /\ ran' = ip
    /\ lastStep' = NoStep
    /\ UNCHANGED <<max_retries, total_steps, total_retries, spc, attempt,
                   retries_used, planned, is_running, script, result, runs, cur,
                   sv, failedAt>>
    /\ UNCHANGED wifiVars
    /\ UNCHANGED notStep
    /\ invoked' = {"screenshot"}

\* checkpoint(description) of the script -> AutoGLMDriver.checkpoint: a
\* screenshot and a yes/no question, no motion (task_runtime_v2.py 258-278;
\* autoglm_driver.py 607-675)
Checkpoint ==
    /\ script # <<>> /\ spc = "none"
    /\ ip <= Len(script) /\ script[ip] = "checkpoint"
    /\ ip' = ip + 1
    /\ ran' = ip
    /\ lastStep' = NoStep
    /\ UNCHANGED <<max_retries, total_steps, total_retries, spc, attempt,
                   retries_used, planned, is_running, script, result, runs, cur,
                   sv, failedAt>>
    /\ UNCHANGED wifiVars
    /\ UNCHANGED notStep
    /\ invoked' = {"screenshot"}

\* the end of execute(): the script ran to its end (success, lines 127-140),
\* or an exception left it: `except SafetyError` (149-161) names
\* tactical.autoglm_driver.SafetyError, `except Exception` (177-192) takes the
\* rest; finally is_running = False (194-195)
ExecuteReturn ==
    /\ script # <<>>
    /\ \/ spc = "raised"
       \/ spc = "none" /\ ip > Len(script)
    /\ result' = IF spc = "raised"
                 THEN [done |-> TRUE, success |-> FALSE,
                       error |-> IF Catches(AutoglmSafetyError, BaseSafetyError)
                                 THEN "SafetyError" ELSE "ExecutionError",
                       steps |-> total_steps, retries |-> total_retries]
                 ELSE [done |-> TRUE, success |-> TRUE, error |-> "",
                       steps |-> total_steps, retries |-> total_retries]
    /\ is_running' = FALSE
    /\ spc' = "none"
    /\ attempt' = 0
    /\ retries_used' = 0
    /\ planned' = NoGesture
    /\ cur' = IdleCur
    /\ script' = <<>>
    /\ ip' = 1
    /\ UNCHANGED <<max_retries, total_steps, total_retries, runs,
                   lastStep, sv, failedAt, ran>>
    /\ UNCHANGED wifiVars
    /\ UNCHANGED notStep
    /\ UNCHANGED invoked

\* TaskRuntime.stop(), called from another thread while execute() runs:
\* if self.is_running: self.is_running = False  (task_runtime_v2.py 304-308)
Stop ==
    /\ is_running
    /\ is_running' = FALSE
    /\ halted' = [hit |-> TRUE, run |-> runs, steps |-> total_steps,
                  busy |-> spc # "none"]
    /\ UNCHANGED <<max_retries, total_steps, total_retries, spc, attempt,
                   retries_used, planned, script, ip, result, runs, cur,
                   lastStep, sv, failedAt, ran, invoked>>
    /\ UNCHANGED <<drvVars, wifiVars, guiVars, xfVars, mlVars, sbxVars, before>>

(***************************************************************************)
(* MotorControlGUI command queue (gui/motor_control_gui.py).  Every        *)
(* handler runs on the Tk main thread, one at a time.                      *)
(***************************************************************************)
NoGuiCmd == [kind |-> "none", id |-> 0, tag |-> 0]

\* MotorControlGUI.__init__ (lines 744-749), after the controller connected
GuiInit ==
    /\ gui_queue = <<>>
    /\ gui_seq = 1
    /\ waiting_response = FALSE
    /\ gui_current = NoGuiCmd
    /\ command_timer = FALSE
    /\ after_exec = 0
    /\ gui_wire = <<>>
    /\ gui_calls = 0
    /\ gui_outcome = <<>>

\* execute_next_command() on the queue q: pop the head, send it, arm the
\* timeout timer (lines 2161-2241); oc and pend are the history and the
\* pending callbacks at the time of the call
execute_next_command(q, oc, pend) ==
    /\ after_exec' = pend
    /\ IF q = <<>> \/ waiting_response
       THEN /\ gui_queue' = q
            /\ gui_outcome' = oc
            /\ UNCHANGED <<waiting_response, gui_current, command_timer, gui_wire>>
       ELSE /\ gui_current' = Head(q)
            /\ gui_queue' = Tail(q)
            /\ waiting_response' = TRUE
            /\ gui_wire' = Append(gui_wire, Head(q))
            /\ command_timer' = TRUE
            /\ gui_outcome' = [oc EXCEPT ![Head(q).tag] = "Executing"]

\* add_command_to_queue(): number the command, append it, and execute it
\* at once when no command is waiting for its response (lines 2132-2159)
add_command_to_queue ==
    /\ LET cmd == [kind |-> "click", id |-> gui_seq, tag |-> gui_calls + 1]
           q == Append(gui_queue, cmd)
           oc == Append(gui_outcome, "Queued")
       IN  /\ gui_seq' = gui_seq + 1
           /\ gui_calls' = gui_calls + 1
           /\ IF ~waiting_response
              THEN execute_next_command(q, oc, after_exec)
              ELSE /\ gui_queue' = q
                   /\ gui_outcome' = oc
                   /\ UNCHANGED <<waiting_response, gui_current, command_timer,
                                  gui_wire, after_exec>>
    /\ UNCHANGED notGui

\* on_command_complete(): release the queue, cancel the timer, schedule the
\* next command or reset the numbering (lines 2243-2265); how is the way the
\* command ended
on_command_complete(how) ==
    /\ waiting_response' = FALSE
    /\ gui_current' = NoGuiCmd
    /\ command_timer' = FALSE
    /\ gui_outcome' = IF gui_current = NoGuiCmd THEN gui_outcome
                      ELSE [gui_outcome EXCEPT ![gui_current.tag] = how]
    /\ IF gui_queue # <<>>
       THEN after_exec' = after_exec + 1 /\ UNCHANGED gui_seq
       ELSE gui_seq' = 1 /\ UNCHANGED after_exec
    /\ UNCHANGED <<gui_queue, gui_wire, gui_calls>>

\* the timer armed by execute_next_command fires after command_timeout
\* seconds: on_command_timeout() (lines 2233-2237, 2267-2270)
on_command_timeout ==
    /\ command_timer
    /\ on_command_complete("TimedOut")
    /\ UNCHANGED notGui

\* a callback scheduled by root.after(100, self.execute_next_command) runs
\* (line 2262)
AfterExecuteNext ==
    /\ after_exec > 0
    /\ execute_next_command(gui_queue, gui_outcome, after_exec - 1)
    /\ UNCHANGED <<gui_seq, gui_calls>>
    /\ UNCHANGED notGui

(***************************************************************************)
(* Specification of the command queue under concurrent callers             *)
(***************************************************************************)
\* the gestures of the concurrent scenario: a tap at (0.5, 0.5) and a drag
\* (0.0, 0.0) -> (1.0, 1.0)
QueueGestures ==
    { Gesture("tap", 50000, 50000, 0, 0),
      Gesture("swipe", 0, 0, NormScale, NormScale) }

\* no round trip computed yet
NoProbe == [done |-> FALSE, w |-> DefaultWork, qx |-> 0, qy |-> 0,
            nx |-> 0, ny |-> 0, bx |-> 0, by |-> 0]

XfInit == probe = NoProbe

NoAction == [type |-> "none", g |-> NoGesture]
NoMlStep == [id |-> 0, how |-> "", success |-> FALSE, attempts |-> 0, acts |-> 0,
             exhausted |-> FALSE, reason |-> ""]
NoMal == [hit |-> FALSE, id |-> 0, attempt |-> 0]
NoTakeover == [at |-> 0, attempt |-> 0, acts |-> 0]
NoResult1 == [done |-> FALSE, success |-> FALSE, error |-> "", total_steps |-> 0,
              failed_steps |-> 0]
\* shot: what the capture of the attempt in progress returned
IdleMcur == [captures |-> 0, predicts |-> 0, acts |-> 0, shot |-> ""]

\* TaskRuntime.__init__ with max_steps = n (runtime/task_runtime.py, 62-82)
MlInitOf(n) ==
    /\ max_steps = n
    /\ _stop_requested = FALSE
    /\ code = <<>>
    /\ ip1 = 1
    /\ step_count = 0
    /\ logs = <<>>
    /\ result1 = NoResult1
    /\ mpc = "none"
    /\ attempts = 0
    /\ last_error = ""
    /\ action = NoAction
    /\ runs1 = 0
    /\ mcur = IdleMcur
    /\ mlast = NoMlStep
    /\ mal = NoMal
    /\ takeover = NoTakeover
    /\ ran1 = 0

\* max_steps: int = 50 (task_runtime.py, line 65)
DefaultMaxSteps == 50

\* create_runtime: TaskRuntime(step_function=bound_step), max_steps = 50
MlInit == MlInitOf(DefaultMaxSteps)

SbxInit ==
    /\ sandbox = ""
    /\ stmts = <<>>
    /\ sip = 1
    /\ reached = {}
    /\ verdict = [done |-> FALSE, success |-> FALSE, imported |-> FALSE]

NoHalt == [hit |-> FALSE, run |-> 0, steps |-> 0, busy |-> FALSE]
HaltInit == halted = NoHalt /\ before = [steps |-> 0, retries |-> 0]

AuxInit == XfInit /\ MlInit /\ SbxInit /\ HaltInit

Init == DrvInit /\ WifiInit /\ StepInit(DefaultMaxRetries) /\ GuiInit /\ AuxInit

Call(t) ==
    /\ ncalls < MaxCmds
    /\ \E g \in QueueGestures : DriverCall(t, g)

Next ==
    \/ \E t \in Callers : Call(t)
    \/ \E t \in Callers : QRead(t)
    \/ \E t \in Callers : QIncLoad(t)
    \/ \E t \in Callers : QIncStore(t)
    \/ \E t \in Callers : QAppend(t)
    \/ \E t \in Callers : QCheck(t)
    \/ \E e \in Execs : ECheckQueue(e)
    \/ \E e \in Execs : ECheckExec(e)
    \/ \E e \in Execs : ESet(e)
    \/ \E e \in Execs : EPop(e)
    \/ \E e \in Execs : ESend(e)
    \/ \E e \in Execs : EClear(e)
    \/ \E e \in Execs : EWaitReady(e)
    \/ \E e \in Execs : EWaitTimeout(e)
    \/ \E e \in Execs : ERelease(e)
    \/ ListenerReady

Spec == Init /\ [][Next]_vars

(***************************************************************************)
(* Liveness when the device stays silent: no READY line ever arrives, so   *)
(* every wait ends by its timeout.  Commands are taps given to the driver  *)
(* by one caller thread, or clicks given to the GUI queue.  Threads are    *)
(* scheduled fairly and the Tk main loop runs every due callback.          *)
(***************************************************************************)
SilentCall ==
    /\ ncalls + gui_calls < MaxLiveCmds
    /\ DriverCall(1, Gesture("tap", 50000, 50000, 0, 0))

SilentGuiAdd ==
    /\ ncalls + gui_calls < MaxLiveCmds
    /\ add_command_to_queue

CallerStep(t) ==
    QRead(t) \/ QIncLoad(t) \/ QIncStore(t) \/ QAppend(t) \/ QCheck(t)

SilentExecStep(e) ==
    \/ ECheckQueue(e) \/ ECheckExec(e) \/ ESet(e) \/ EPop(e) \/ ESend(e)
    \/ EClear(e) \/ EWaitTimeout(e) \/ ERelease(e)

SilentNext ==
    \/ SilentCall
    \/ SilentGuiAdd
    \/ CallerStep(1)
    \/ \E e \in Execs : SilentExecStep(e)
    \/ on_command_timeout
    \/ AfterExecuteNext

SilentSpec ==
    /\ Init
    /\ [][SilentNext]_vars
    /\ WF_vars(CallerStep(1))
    /\ \A e \in Execs : WF_vars(SilentExecStep(e))
    /\ WF_vars(on_command_timeout)
    /\ WF_vars(AfterExecuteNext)

(***************************************************************************)
(* Two threads share one WiFiDriver: thread 1 issues the drag (0.0, 0.0)   *)
(* -> (1.0, 1.0), thread 2 the tap (0.5, 0.5)                              *)
(***************************************************************************)
MaxWifiCalls == 2     \* WiFi driver calls made by the two threads

WifiDrag ==
    /\ wcalls < MaxWifiCalls
    /\ WifiCall(1, Gesture("swipe", 0, 0, NormScale, NormScale))

WifiTap ==
    /\ wcalls < MaxWifiCalls
    /\ WifiCall(2, Gesture("tap", 50000, 50000, 0, 0))

WifiNext ==
    \/ WConnect
    \/ WifiDrag
    \/ WifiTap
    \/ \E t \in Callers : WTapGet(t)
    \/ \E t \in Callers : WSwipeGet(t)
    \/ \E t \in Callers : WSwipeSleep(t)

WifiSpec == Init /\ [][WifiNext]_vars

(***************************************************************************)
(* A runtime executing scripts over an AutoGLMDriver whose retry budget is *)
(* any value up to MaxBudget                                               *)
(***************************************************************************)
StepSpecInit ==
    /\ DrvInit /\ WifiInit /\ GuiInit /\ AuxInit
    /\ \E b \in 1..MaxBudget : StepInit(b)

StepNext ==
    \/ WConnect
    \/ Execute
    \/ StepCall
    \/ AttemptBegin
    \/ Exhausted
    \/ Capture
    \/ Plan
    \/ Act
    \/ VerifyCapture
    \/ Verify
    \/ Ask
    \/ Checkpoint
    \/ ExecuteReturn

StepSpec == StepSpecInit /\ [][StepNext]_vars

(***************************************************************************)
(* Observations used by the properties                                     *)
(***************************************************************************)
Tags == 1..Max3(Max3(MaxCmds, MaxLiveCmds, MaxGuardCalls), MaxRaceCmds, 1)

InQueue(k) == \E i \in 1..Len(command_queue) : command_queue[i].tag = k
OnWire(k) == \E i \in 1..Len(wire) : wire[i].cmd.tag = k
IsExecuting(k) == k <= Len(outcome) /\ outcome[k] = "Executing"
Dropped(k) == k <= Len(outcome) /\ outcome[k] \in {"Acknowledged", "TimedOut"}
Released(k) == Dropped(k) /\ \A e \in Execs : ecmd[e].tag # k

\* executor threads between the pop of a command and executing = False
InFlight == {e \in Execs : epc[e] \in {"send", "clear", "wait", "release"}}

\* C3: at most one command is in the Executing state
C3_AtMostOneExecuting == Cardinality(InFlight) <= 1

\* the same observations on the GUI queue
GuiInQueue(k) == \E i \in 1..Len(gui_queue) : gui_queue[i].tag = k
GuiOnWire(k) == \E i \in 1..Len(gui_wire) : gui_wire[i].tag = k
GuiIsExecuting(k) == k <= Len(gui_outcome) /\ gui_outcome[k] = "Executing"
GuiReleased(k) ==
    /\ k <= Len(gui_outcome) /\ gui_outcome[k] = "TimedOut"
    /\ gui_current.tag # k

C5_WireInAppendOrder ==
    \A i \in 1..Len(wire) : wire[i].cmd.tag = i

(***************************************************************************)
(* Specification of the guard and the coordinate transform: one caller     *)
(* that may pass any grid coordinate to any entry point, and may           *)
(* recalibrate the work area                                               *)
(***************************************************************************)
\* -0.1, 0.0, 0.5, 1.0, 1.5
NormVals == {-10000, 0, 50000, NormScale, 150000}
\* swipe end points: (0,0), (1,1), (0,1.5), (1.5,0.5)
SwipePoints == {<<0, 0>>, <<NormScale, NormScale>>, <<0, 150000>>, <<150000, 50000>>}

AltWork == [x1 |-> 100, y1 |-> 200, x2 |-> 1101, y2 |-> 2201]

GuardGestures ==
    { Gesture("tap", x, y, 0, 0) : x \in NormVals, y \in NormVals }
    \cup
    { Gesture(op, p[1], p[2], 0, 0) :
        op \in {"double_tap", "long_press"}, p \in {<<50000, 50000>>, <<0, 150000>>, <<150000, 50000>>} }
    \cup
    { Gesture("swipe", p[1], p[2], 50000, 50000) : p \in SwipePoints }
    \cup
    { Gesture("swipe", 50000, 50000, p[1], p[2]) : p \in SwipePoints }

GuardCall ==
    /\ ncalls < MaxGuardCalls
    /\ \E g \in GuardGestures : DriverCall(1, g)

Calibrate ==
    /\ work = DefaultWork
    /\ set_work_area(AltWork.x1, AltWork.y1, AltWork.x2, AltWork.y2)

GuardNext ==
    \/ GuardCall
    \/ Calibrate
    \/ QRead(1)
    \/ QIncLoad(1)
    \/ QIncStore(1)
    \/ QAppend(1)
    \/ QCheck(1)
    \/ \E e \in Execs : ECheckQueue(e)
    \/ \E e \in Execs : ECheckExec(e)
    \/ \E e \in Execs : ESet(e)
    \/ \E e \in Execs : EPop(e)
    \/ \E e \in Execs : ESend(e)
    \/ \E e \in Execs : EClear(e)
    \/ \E e \in Execs : EWaitTimeout(e)
    \/ \E e \in Execs : ERelease(e)

GuardSpec == Init /\ [][GuardNext]_vars

\* every command the driver holds: being enqueued, queued, popped, or written
HeldCmds ==
    {creg[t] : t \in Callers} \cup {ecmd[e] : e \in Execs}
    \cup {command_queue[i] : i \in 1..Len(command_queue)}
    \cup {wire[i].cmd : i \in 1..Len(wire)}

\* the normalized coordinates a gesture or command carries
GestureCoords(g) == IF g.op = "swipe" THEN {g.x, g.y, g.x2, g.y2} ELSE {g.x, g.y}
CmdCoords(c) == IF c.type = DRAG THEN {c.cx, c.cy, c.cx2, c.cy2} ELSE {c.cx, c.cy}

\* C1: a call with any coordinate outside [0.0, 1.0] raises SafetyError, and
\* no command with such a coordinate is enqueued or written to the transport
C1_OutOfRangeIsRejected ==
    /\ (\E v \in GestureCoords(lastCall.g) : ~InRange(v)) => lastCall.raised
    /\ \A c \in HeldCmds : \A v \in CmdCoords(c) : InRange(v)

\* C9: each normalized coordinate on a written line equals the commanded one
C9_WireCarriesCommanded ==
    \A i \in 1..Len(wire) :
        LET l == wire[i]
            f == NormScale \div l.scale
        IN  /\ l.nx * f = l.cmd.cx
            /\ l.ny * f = l.cmd.cy
            /\ l.kind = "drag" => (l.nx2 * f = l.cmd.cx2 /\ l.ny2 * f = l.cmd.cy2)

\* int(): v is num / NormScale truncated toward zero
Truncates(v, num) ==
    IF num >= 0
    THEN v * NormScale <= num /\ num < (v + 1) * NormScale
    ELSE (v - 1) * NormScale < num /\ num <= v * NormScale

\* C10: the physical target of a command is origin + normalized * (extent -
\* origin) per axis, truncated to an integer; with the work area (0,0)-(3900,
\* 6300), a tap at (0.5, 0.5) is the CLICK command (1950, 3150) and is written
\* as one move_click line carrying 0, 0, 3900, 6300 and 0.50000, 0.50000
C10_TapTargetsPhysicalPoint ==
    /\ \A c \in HeldCmds :
          c.type # 0 =>
            /\ Truncates(c.x, c.wk.x1 * NormScale + c.cx * (c.wk.x2 - c.wk.x1))
            /\ Truncates(c.y, c.wk.y1 * NormScale + c.cy * (c.wk.y2 - c.wk.y1))
            /\ c.type = DRAG =>
                 /\ Truncates(c.x2, c.wk.x1 * NormScale + c.cx2 * (c.wk.x2 - c.wk.x1))
                 /\ Truncates(c.y2, c.wk.y1 * NormScale + c.cy2 * (c.wk.y2 - c.wk.y1))
    /\ \A c \in HeldCmds :
          (c.type = CLICK /\ c.cx = 50000 /\ c.cy = 50000 /\ c.wk = DefaultWork)
            => (c.x = 1950 /\ c.y = 3150)
    /\ \A i \in 1..Len(wire) :
          LET l == wire[i]
          IN  (l.cmd.type = CLICK /\ l.cmd.x = 1950 /\ l.cmd.y = 3150 /\ l.w = DefaultWork)
                => /\ l.kind = "move_click"
                   /\ l.nx = 50000 /\ l.ny = 50000
                   /\ l.click = CLICK
                   /\ \A j \in 1..Len(wire) : wire[j].cmd.tag = l.cmd.tag => j = i
    /\ \A k \in Tags : Released(k) => OnWire(k)

C10_Witness ==
    \E i \in 1..Len(wire) :
        /\ wire[i].cmd.type = CLICK
        /\ wire[i].cmd.cx = 50000 /\ wire[i].cmd.cy = 50000
        /\ wire[i].cmd.wk = DefaultWork /\ wire[i].w = DefaultWork
        /\ wire[i].nx = 50000
        /\ Released(wire[i].cmd.tag)

(***************************************************************************)
(* Properties of the WiFi driver, the step controller and the runtime      *)
(***************************************************************************)
\* C6: the requests of one drag are contiguous in the order the device
\* receives them: no request of another call arrives between two of them
C6_DragIsNotInterleaved ==
    \A i \in 1..Len(http) : \A k \in 1..Len(http) :
        (i < k /\ http[i].op = "swipe" /\ http[i].call = http[k].call)
            => \A j \in i..k : http[j].call = http[i].call

\* C2: once the driver's guard has rejected the planned action, execute_step
\* propagates SafetyError on that attempt: it makes no further attempt, the
\* retry counter stays, nothing reaches the transport, and no failed
\* StepResult is returned for the step
C2_SafetyErrorPropagates ==
    sv.hit =>
        /\ spc = "raised" \/ (result.done /\ ~result.success)
        /\ attempt = sv.attempt \/ ~is_running
        /\ total_retries = sv.retries
        /\ Len(http) = sv.sent
        /\ lastStep.id # total_steps

C8_FailedStepEndsScript ==
    failedAt # 0 =>
        /\ ran <= failedAt
        /\ result.done =>
              /\ ~result.success
              /\ result.error # ""
              /\ result.steps = total_steps
              /\ result.retries = total_retries

(***************************************************************************)
(* The coordinate transform on its own: set_work_area is called with any   *)
(* rectangle (proper, degenerate or inverted) and a physical point is sent *)
(* through _abs_to_norm and back through _norm_to_abs.  The float returned *)
(* by _abs_to_norm is held at the 1/NormScale resolution, which is coarser *)
(* than binary64: the round trip below loses at least what the code loses. *)
(***************************************************************************)
\* rectangles given to set_work_area: the default, a calibrated one with odd
\* spans, a tiny one, a zero-width one, a zero-height one, an inverted one
WorkAreas ==
    { DefaultWork, AltWork,
      [x1 |-> 0, y1 |-> 0, x2 |-> 7, y2 |-> 3],
      [x1 |-> 100, y1 |-> 100, x2 |-> 100, y2 |-> 400],
      [x1 |-> 100, y1 |-> 100, x2 |-> 400, y2 |-> 100],
      [x1 |-> 3900, y1 |-> 6300, x2 |-> 0, y2 |-> 0] }

\* distances of the physical points tried from the two edges of an axis
ProbeOffsets == {-50, -1, 0, 1, 29, 333}

AxisPoints(lo, hi) == {lo + d : d \in ProbeOffsets} \cup {hi - d : d \in ProbeOffsets}

SetArea == \E w \in WorkAreas : set_work_area(w.x1, w.y1, w.x2, w.y2)

\* n = self._abs_to_norm(qx, qy); b = self._norm_to_abs(*n)
RoundTrip ==
    /\ \E qx \in AxisPoints(work.x1, work.x2), qy \in AxisPoints(work.y1, work.y2) :
           LET n == _abs_to_norm(qx, qy, work, NormScale)
               b == _norm_to_abs(n[1], n[2], work)
           IN  probe' = [done |-> TRUE, w |-> work, qx |-> qx, qy |-> qy,
                         nx |-> n[1], ny |-> n[2], bx |-> b[1], by |-> b[2]]
    /\ UNCHANGED <<drvVars, wifiVars, stepVars, guiVars, mlVars, sbxVars, haltVars>>

XfNext == SetArea \/ RoundTrip

XfSpec == Init /\ [][XfNext]_vars

Proper(w) == w.x2 > w.x1 /\ w.y2 > w.y1
Inside(q, lo, hi) == lo <= q /\ q <= hi
Near(a, b) == a - b <= 1 /\ b - a <= 1

\* C11: for a work area with x2 > x1 and y2 > y1 and a physical point inside
\* it, _norm_to_abs(_abs_to_norm(q)) is within one unit of q on each axis; and
\* for any work area and any point, both components returned by _abs_to_norm
\* lie in [0.0, 1.0]
C11_RoundTripWithinOneUnit ==
    probe.done =>
        /\ InRange(probe.nx) /\ InRange(probe.ny)
        /\ (Proper(probe.w) /\ Inside(probe.qx, probe.w.x1, probe.w.x2)
                            /\ Inside(probe.qy, probe.w.y1, probe.w.y2))
              => (Near(probe.bx, probe.qx) /\ Near(probe.by, probe.qy))

\* a point strictly inside a calibrated area with odd spans has made the
\* round trip and lost one unit on the way, and a point outside was clamped
C11_Witness ==
    /\ probe.done /\ probe.w = AltWork
    /\ probe.qx = AltWork.x1 + 29 /\ probe.bx = probe.qx - 1
    /\ probe.qy = AltWork.y2 + 50 /\ probe.ny = NormScale

\* C17: the stored work area always has x2 > x1 and y2 > y1
C17_WorkAreaKeepsPositiveExtent == Proper(work)

(***************************************************************************)
(* The first runtime: TaskRuntime of runtime/task_runtime.py, whose step() *)
(* is create_runtime.bound_step over micro_loop.execute_step, with the     *)
(* planner of tactical/vision_adapter.py.  The code is a straight line of  *)
(* step() calls.                                                           *)
(***************************************************************************)
MaxCodeLen == 2       \* statements in one code string
MaxRuns1 == 1         \* execute() calls

\* max_retries=1 passed by bound_step (task_runtime.py, line 299)
BoundMaxRetries == 1

\* what the planner API call yields: the text of an answer, or an exception
\* raised by client.chat.completions.create
ApiError == "<api error>"
Replies == {"Tap(0.5, 0.5)", "Tap(1.5, 0.5)", "TakeOver", "TaskFinished",
            "I am not sure", ApiError}

\* VisionAdapter._parse_response (vision_adapter.py, lines 174-255): the
\* patterns are tried in this order, and a text that matches none of them
\* becomes TAKE_OVER
_parse_response(text) ==
    CASE text = "Tap(0.5, 0.5)" -> [type |-> "tap", g |-> Gesture("tap", 50000, 50000, 0, 0)]
      [] text = "Tap(1.5, 0.5)" -> [type |-> "tap", g |-> Gesture("tap", 150000, 50000, 0, 0)]
      [] text = "TakeOver" -> [type |-> "take_over", g |-> NoGesture]
      [] text = "TaskFinished" -> [type |-> "task_finished", g |-> NoGesture]
      [] OTHER -> [type |-> "take_over", g |-> NoGesture]

\* VisionAdapter._real_predict (lines 118-172): an exception of the API call
\* is answered with TAKE_OVER
_real_predict(reply) ==
    IF reply = ApiError
    THEN [type |-> "take_over", g |-> NoGesture]
    ELSE _parse_response(reply)

\* the planner reply was an explicit take-over signal
Explicit(reply) == reply = "TakeOver"
\* the planner call failed or its answer matches no pattern
Malformed(reply) == reply \in {ApiError, "I am not sure"}

Codes == UNION { [1..n -> {"step"}] : n \in 1..MaxCodeLen }

\* TaskRuntime.execute(code): reset, compile, exec (task_runtime.py 209-232)
Execute1 ==
    /\ code = <<>> /\ runs1 < MaxRuns1
    /\ \E c \in Codes : code' = c
    /\ ip1' = 1
    /\ step_count' = 0
    /\ logs' = <<>>
    /\ result1' = NoResult1
    /\ runs1' = runs1 + 1
    /\ mlast' = NoMlStep
    /\ mal' = NoMal
    /\ takeover' = NoTakeover
    /\ ran1' = 0
    /\ _stop_requested' = FALSE
    /\ UNCHANGED <<max_steps, mpc, attempts, last_error, action, mcur>>
    /\ UNCHANGED notMl

\* an exception leaves exec(): `except Exception` of execute builds
\* RuntimeResult(success=False, total_steps=self.step_count, ...)
\* (task_runtime.py 255-264).  logged: the exception came out of
\* step_function, and the step wrapper has appended ExecutionLog(success=
\* False) on its way (124-133); count: self.step_count at that moment
Abort1(how, err, logged, count) ==
    /\ logs' = IF logged THEN Append(logs, FALSE) ELSE logs
    /\ result1' = [done |-> TRUE, success |-> FALSE, error |-> err,
                   total_steps |-> count,
                   failed_steps |-> Cardinality({i \in 1..Len(logs) : ~logs[i]})
                                    + (IF logged THEN 1 ELSE 0)]
    /\ mlast' = [id |-> ip1, how |-> how, success |-> FALSE, attempts |-> attempts,
                 acts |-> mcur.acts, exhausted |-> FALSE, reason |-> err]
    /\ code' = <<>>
    /\ ip1' = 1
    /\ mpc' = "none"
    /\ attempts' = 0
    /\ last_error' = ""
    /\ action' = NoAction
    /\ mcur' = IdleMcur

\* execute_step is left: by `return StepResult(success=True, ...)`, which
\* bound_step turns into True, or by StepFailedError, which bound_step
\* catches and turns into False (task_runtime.py 292-305); the step wrapper
\* appends ExecutionLog(success) and the code goes on (113-122)
Back1(how, success, exhausted, reason) ==
    /\ logs' = Append(logs, success)
    /\ mlast' = [id |-> ip1, how |-> how, success |-> success, attempts |-> attempts,
                 acts |-> mcur.acts, exhausted |-> exhausted, reason |-> reason]
    /\ ip1' = ip1 + 1
    /\ mpc' = "none"
    /\ attempts' = 0
    /\ last_error' = ""
    /\ action' = NoAction
    /\ mcur' = IdleMcur
    /\ UNCHANGED <<code, result1>>

\* step(goal) of the code, the wrapper: a requested stop raises RuntimeError;
\* otherwise step_count += 1, and a count above max_steps raises RuntimeError;
\* otherwise bound_step calls execute_step (task_runtime.py 98-113;
\* micro_loop.py 118-125)
Step1 ==
    /\ code # <<>> /\ mpc = "none"
    /\ ip1 <= Len(code) /\ code[ip1] = "step"
    /\ ran1' = ip1
    /\ IF _stop_requested
       THEN /\ Abort1("RuntimeError", "Execution stopped by user", FALSE, step_count)
            /\ UNCHANGED step_count
       ELSE /\ step_count' = step_count + 1
            /\ IF step_count + 1 > max_steps
               THEN Abort1("RuntimeError", "Maximum steps exceeded", FALSE,
                           step_count + 1)
               ELSE /\ mpc' = "loop"
                    /\ attempts' = 0
                    /\ last_error' = ""
                    /\ action' = NoAction
                    /\ mcur' = IdleMcur
                    /\ mlast' = NoMlStep
                    /\ UNCHANGED <<code, ip1, logs, result1>>
    /\ UNCHANGED <<runs1, mal, takeover>>
    /\ UNCHANGED <<max_steps, _stop_requested>>
    /\ UNCHANGED notMl

\* while attempts <= max_retries: attempts += 1   (micro_loop.py 127-128)
Attempt1 ==
    /\ mpc = "loop"
    /\ attempts <= BoundMaxRetries
    /\ attempts' = attempts + 1
    /\ mpc' = "capture"
    /\ UNCHANGED <<code, ip1, step_count, logs, result1, last_error, action,
                   runs1, mcur, mlast, mal, takeover, ran1>>
    /\ UNCHANGED <<max_steps, _stop_requested>>
    /\ UNCHANGED notMl

\* the loop ends: raise StepFailedError(goal, last_error or "Unknown error",
\* attempts)                                       (micro_loop.py 212-213)
Exhausted1 ==
    /\ mpc = "loop"
    /\ attempts > BoundMaxRetries
    /\ Back1("StepFailedError", FALSE, TRUE,
             IF last_error = "" THEN "Unknown error" ELSE last_error)
    /\ UNCHANGED <<step_count, runs1, mal, takeover, ran1>>
    /\ UNCHANGED <<max_steps, _stop_requested>>
    /\ UNCHANGED notMl

\* screenshot = capture_func(): image bytes or None; None is replaced by b""
\* and the attempt goes on                         (micro_loop.py 134-137)
Capture1 ==
    /\ mpc = "capture"
    /\ \E shot \in BOOLEAN :
          mcur' = [mcur EXCEPT !.captures = @ + 1,
                               !.shot = IF shot THEN "image" ELSE "none"]
    /\ mpc' = "predict"
    /\ UNCHANGED <<code, ip1, step_count, logs, result1, attempts, last_error,
                   action, runs1, mlast, mal, takeover, ran1>>
    /\ UNCHANGED <<max_steps, _stop_requested>>
    /\ UNCHANGED notMl

\* action = vision.predict(screenshot, goal); TAKE_OVER raises
\* StepFailedError, which `except StepFailedError: raise` lets through;
\* TASK_FINISHED returns success                   (micro_loop.py 141-157, 202-203)
Predict1 ==
    /\ mpc = "predict"
    /\ \E reply \in Replies :
          LET a == _real_predict(reply) IN
          /\ mal' = IF Malformed(reply)
                    THEN [hit |-> TRUE, id |-> ip1, attempt |-> attempts]
                    ELSE mal
          /\ takeover' = IF Explicit(reply) /\ takeover.at = 0
                         THEN [at |-> ip1, attempt |-> attempts, acts |-> mcur.acts]
                         ELSE takeover
          /\ CASE a.type = "take_over" ->
                    /\ Back1("StepFailedError", FALSE, FALSE, "AI requested human takeover")
                    /\ UNCHANGED step_count
               [] a.type = "task_finished" ->
                    /\ Back1("returned", TRUE, FALSE, "")
                    /\ UNCHANGED step_count
               [] OTHER ->
                    /\ action' = a
                    /\ mpc' = "act"
                    /\ mcur' = [mcur EXCEPT !.predicts = @ + 1]
                    /\ UNCHANGED <<code, ip1, step_count, logs, result1, attempts,
                                   last_error, mlast>>
    /\ UNCHANGED <<runs1, ran1>>
    /\ UNCHANGED <<max_steps, _stop_requested>>
    /\ UNCHANGED notMl

\* _execute_action(driver, action): the driver's guard raises SafetyError,
\* re-raised by `except SafetyError: raise` and by bound_step; any other
\* driver exception is kept in last_error and the loop goes on; then the
\* cool-down                                      (micro_loop.py 161-165, 197-210)
Act1 ==
    /\ mpc = "act"
    /\ IF safe_guard(action.g)
       THEN /\ Abort1("SafetyError", "SafetyError", TRUE, step_count)
            /\ UNCHANGED <<attempts>>
       ELSE \E ok \in BOOLEAN :
              IF ok
              THEN /\ mcur' = [mcur EXCEPT !.acts = @ + 1]
                   /\ mpc' = "verify"
                   /\ UNCHANGED <<code, ip1, logs, result1, attempts, last_error,
                                  action, mlast>>
              ELSE /\ last_error' = "driver error"
                   /\ mpc' = "loop"
                   /\ action' = NoAction
                   /\ UNCHANGED <<code, ip1, logs, result1, attempts, mcur, mlast>>
    /\ UNCHANGED <<step_count, runs1, mal, takeover, ran1>>
    /\ UNCHANGED <<max_steps, _stop_requested>>
    /\ UNCHANGED notMl

\* verify_screenshot = capture_func(); vision.verify(...): success returns,
\* failure sets last_error and continues          (micro_loop.py 168-187)
Verify1 ==
    /\ mpc = "verify"
    /\ \E is_success \in BOOLEAN :
          IF is_success
          THEN /\ Back1("returned", TRUE, FALSE, "")
          ELSE /\ last_error' = "Verification failed"
               /\ mpc' = "loop"
               /\ action' = NoAction
               /\ UNCHANGED <<code, ip1, logs, result1, attempts, mcur, mlast>>
    /\ UNCHANGED <<step_count, runs1, mal, takeover, ran1>>
    /\ UNCHANGED <<max_steps, _stop_requested>>
    /\ UNCHANGED notMl

\* exec() reached the end of the code: RuntimeResult(success=True, ...)
\*                                                (task_runtime.py 234-244)
ExecuteReturn1 ==
    /\ code # <<>> /\ mpc = "none" /\ ip1 > Len(code)
    /\ result1' = [done |-> TRUE, success |-> TRUE, error |-> "",
                   total_steps |-> step_count,
                   failed_steps |-> Cardinality({i \in 1..Len(logs) : ~logs[i]})]
    /\ code' = <<>>
    /\ ip1' = 1
    /\ UNCHANGED <<step_count, logs, mpc, attempts, last_error, action, runs1,
                   mcur, mlast, mal, takeover, ran1>>
    /\ UNCHANGED <<max_steps, _stop_requested>>
    /\ UNCHANGED notMl

\* TaskRuntime.stop(), called from another thread while execute() runs:
\* self._stop_requested = True                    (task_runtime.py 266-269)
Stop1 ==
    /\ code # <<>> /\ ~_stop_requested
    /\ _stop_requested' = TRUE
    /\ UNCHANGED <<code, ip1, max_steps, step_count, logs, result1, mpc, attempts,
                   last_error, action, runs1, mcur, mlast, mal, takeover, ran1>>
    /\ UNCHANGED notMl

MicroNext ==
    \/ Execute1
    \/ Step1
    \/ Attempt1
    \/ Exhausted1
    \/ Capture1
    \/ Predict1
    \/ Act1
    \/ Verify1
    \/ ExecuteReturn1

MicroSpec == Init /\ [][MicroNext]_vars

\* C12: once the planner has given an explicit take-over signal on an attempt
\* of a statement, that step ends as a failure on that attempt with no driver
\* actuation made since, no later statement of the code starts, and the
\* result of execute(), when it is there, is a failure
C12_TakeOverHaltsScript ==
    takeover.at # 0 =>
        /\ mlast.id = takeover.at =>
              (~mlast.success /\ mlast.attempts = takeover.attempt
                              /\ mlast.acts = takeover.acts)
        /\ ran1 <= takeover.at
        /\ result1.done => ~result1.success

\* C13: a step whose planner call failed or gave an unreadable answer on an
\* attempt that was not the last of the budget has gone on to a later attempt
\* by the time it ends
C13_MalformedReplyIsRetried ==
    (mal.hit /\ mlast.id = mal.id /\ mal.attempt <= BoundMaxRetries)
        => mlast.attempts > mal.attempt

\* C16: a step that used up its retry budget ended by returning a result whose
\* success is False and whose error is not empty, not by raising
C16_ExhaustionReturns ==
    mlast.exhausted => (mlast.how = "returned" /\ ~mlast.success /\ mlast.reason # "")

\* C14: a step of ask() or checkpoint() calls no driver method other than
\* screenshot(), sends nothing to either transport, leaves the command queue
\* as it is and does not change total_steps or total_retries
C14_AskCheckpointDoNotActuate ==
    [][(Ask \/ Checkpoint) =>
          /\ invoked' \subseteq {"screenshot"}
          /\ UNCHANGED <<http, wire, command_queue, total_steps, total_retries>>]_vars

\* an ask() or checkpoint() has run after a step that sent a tap
C14_Witness ==
    /\ is_running /\ spc = "none" /\ ran = 2 /\ ip = 3
    /\ script[1] = "step" /\ script[2] \in {"ask", "checkpoint"}
    /\ invoked = {"screenshot"}
    /\ total_steps = 1 /\ Len(http) > 0

(***************************************************************************)
(* The namespace of a code string.  exec(code, globals, locals) resolves a *)
(* name in locals, then in globals, then in globals["__builtins__"]; when  *)
(* globals has no "__builtins__" key, exec puts the whole builtins module  *)
(* there.  Attribute access on an object the code holds is not filtered.   *)
(***************************************************************************)
MaxStmts == 2         \* statements in one code string

\* names of the builtins module that matter here
PyBuiltins == {"__import__", "open", "print", "len", "range", "type"}

\* task_runtime_v2.py: exec(code, {}, local_env), local_env built by
\* _prepare_environment (lines 281-300)
_prepare_environment == {"step", "ask", "checkpoint", "range", "len", "print"}
GlobalsV2 == [has_builtins |-> FALSE, builtins |-> {}]

\* task_runtime.py: exec(compiled, safe_globals, safe_locals)
\* (_create_safe_globals, lines 143-188; _create_safe_locals, 195-198)
_create_safe_locals == {"step"}
_create_safe_globals == [has_builtins |-> TRUE, builtins |-> {"print", "len", "range", "type"}]

GlobalsOf(rt) == IF rt = "v1" THEN _create_safe_globals ELSE GlobalsV2
LocalsOf(rt) == IF rt = "v1" THEN _create_safe_locals ELSE _prepare_environment

\* the builtins exec() gives the code
ExecBuiltins(g) == IF g.has_builtins THEN g.builtins ELSE PyBuiltins

Resolves(name, rt) == name \in LocalsOf(rt) \cup ExecBuiltins(GlobalsOf(rt))

\* statements a code string is made of: the name each needs, and the
\* facility it gets hold of when the name resolves
Statements == {"step('a')", "import os", "open('f')", "step.__closure__", "print(1)"}
Needs(st) ==
    CASE st = "import os" -> "__import__"
      [] st = "open('f')" -> "open"
      [] st = "print(1)" -> "print"
      [] OTHER -> "step"
Gives(st) ==
    CASE st = "import os" -> {"process"}
      [] st = "open('f')" -> {"file"}
      [] st = "step.__closure__" -> {"runtime object"}
      [] OTHER -> {}

StmtSeqs == UNION { [1..n -> Statements] : n \in 1..MaxStmts }

\* execute(code) of either runtime is called
SbxExecute ==
    /\ sandbox = ""
    /\ ~verdict.done
    /\ \E rt \in {"v1", "v2"}, c \in StmtSeqs :
          /\ sandbox' = rt
          /\ stmts' = c
          /\ verdict' = [done |-> FALSE, success |-> FALSE,
                          imported |-> \E i \in 1..Len(c) : c[i] = "import os"]
    /\ sip' = 1
    /\ reached' = {}
    /\ UNCHANGED notSbx

\* one statement runs: its name resolves, or NameError / ImportError leaves
\* exec() and execute() returns success = False
\* (task_runtime.py 255-264; task_runtime_v2.py 177-192)
SbxStatement ==
    /\ sandbox # "" /\ sip <= Len(stmts)
    /\ IF Resolves(Needs(stmts[sip]), sandbox)
       THEN /\ reached' = reached \cup Gives(stmts[sip])
            /\ sip' = sip + 1
            /\ UNCHANGED <<sandbox, stmts, verdict>>
       ELSE /\ verdict' = [verdict EXCEPT !.done = TRUE, !.success = FALSE]
            /\ sandbox' = ""
            /\ UNCHANGED <<stmts, sip, reached>>
    /\ UNCHANGED notSbx

\* the code ran to its end: execute() returns success = True
SbxReturn ==
    /\ sandbox # "" /\ sip > Len(stmts)
    /\ verdict' = [verdict EXCEPT !.done = TRUE, !.success = TRUE]
    /\ sandbox' = ""
    /\ UNCHANGED <<stmts, sip, reached>>
    /\ UNCHANGED notSbx

\* the next code string
SbxReset ==
    /\ sandbox = "" /\ verdict.done
    /\ stmts' = <<>>
    /\ sip' = 1
    /\ reached' = {}
    /\ verdict' = [done |-> FALSE, success |-> FALSE, imported |-> FALSE]
    /\ UNCHANGED sandbox
    /\ UNCHANGED notSbx

SbxNext == SbxExecute \/ SbxStatement \/ SbxReturn \/ SbxReset

SbxSpec == Init /\ [][SbxNext]_vars

\* C15: a code string gets hold of no file, process or runtime object, and
\* execute() of a code string that contains `import os` returns success = False
C15_SandboxReachesNothing ==
    /\ reached = {}
    /\ (verdict.done /\ verdict.imported) => ~verdict.success

(***************************************************************************)
(* One client thread uses a SerialDriver: it taps, resets and may          *)
(* disconnect (between calls); the device answers a written line with      *)
(* READY or with ERROR, at any time, or not at all                         *)
(***************************************************************************)
MaxLinkCalls == 2     \* driver calls made by the client thread

LinkTap ==
    /\ ncalls < MaxLinkCalls
    /\ DriverCall(1, Gesture("tap", 50000, 50000, 0, 0))

LinkReset ==
    /\ ncalls < MaxLinkCalls
    /\ reset(1)

LinkDisconnect ==
    /\ cpc[1] = "idle"
    /\ disconnect

LinkNext ==
    \/ LinkTap
    \/ LinkReset
    \/ LinkDisconnect
    \/ CallerStep(1)
    \/ \E e \in Execs : SilentExecStep(e)
    \/ \E e \in Execs : EWaitReady(e)
    \/ ListenerReady
    \/ ListenerError

LinkSpec == Init /\ [][LinkNext]_vars

\* C18: a call made while the driver is disconnected does not return True,
\* appends no command, writes no line, and no executor waits for an
\* acknowledgment of a command appended by it
C18_DisconnectedCallsFailFast ==
    (lastCall.g.op # "none" /\ ~lastCall.up /\ ~lastCall.raised) =>
        /\ lastCall.ret # "True"
        /\ appended = lastCall.n0
        /\ Len(wire) = lastCall.w0
        /\ \A e \in Execs : epc[e] = "wait" => ecmd[e].tag <= lastCall.n0

\* C19: a command whose line was answered with READY or with ERROR while it
\* was Executing is not ended by the timeout
C19_ReadyAndErrorRelease ==
    \A i \in 1..Len(wire) :
        wire[i].ans \in {"READY", "ERROR"} => outcome[wire[i].cmd.tag] # "TimedOut"

\* nothing queued, nothing executing, no call in progress, after at least
\* one command
Drained ==
    /\ appended > 0
    /\ command_queue = <<>>
    /\ \A t \in Callers : cpc[t] = "idle"
    /\ \A e \in Execs : epc[e] \in {"unborn", "returned", "crashed"}

\* C20: ids of queued commands increase by one in queue order, and when the
\* queue has drained the counter is back at 1
C20_SequenceResetsWhenDrained ==
    /\ \A i \in 1..(Len(command_queue) - 1) :
          command_queue[i + 1].id = command_queue[i].id + 1
    /\ Drained => queue_seq = 1

\* the step is the write of a line by executor e for the command it popped
WritesPopped(e) ==
    /\ epc[e] = "send" /\ epc'[e] = "clear"
    /\ wire' = Append(wire, ProtocolLine(ecmd[e], work))

\* C21: while a queued command is Executing, every line written to the
\* transport is written by an executor thread for the command it popped; no
\* other operation of the driver writes
C21_SingleWriter ==
    [][(Len(wire') > Len(wire) /\ \E k \in Tags : IsExecuting(k))
          => \E e \in Execs : WritesPopped(e)]_vars

\* written lines the device has not answered whose command was declared
\* TimedOut: motions that may still be going on
Overdue ==
    {i \in Oldest..Len(wire) :
        wire[i].cmd.tag # 0 /\ outcome[wire[i].cmd.tag] = "TimedOut"}

\* C22: an executor never writes the line of the next command while the
\* device has not finished the motion of a command written before, and this
\* includes a previous command that was declared TimedOut
C22_OneMotionInFlight ==
    [][\A e \in Execs : WritesPopped(e) => Overdue = {}]_vars

\* C29: when the READY of a command that had been declared TimedOut arrives
\* late, the command written after it is not Acknowledged by it: that command
\* ends Acknowledged only if its own line was answered with READY
C29_AckReleasesOnlyItsCommand ==
    \A i \in 1..(Len(wire) - 1) :
        LET k == wire[i].cmd.tag
            n == wire[i + 1].cmd.tag
        IN  (k # 0 /\ n # 0 /\ wire[i].ans = "late" /\ outcome[k] = "TimedOut"
                /\ outcome[n] = "Acknowledged")
               => wire[i + 1].ans = "READY"

\* C30: a command whose line the device answered with READY while the command
\* was Executing, at any moment after the line was written, does not end
\* TimedOut
C30_NoAcknowledgmentLost ==
    \A i \in 1..Len(wire) :
        (wire[i].cmd.tag # 0 /\ wire[i].ans = "READY")
            => outcome[wire[i].cmd.tag] \in {"Executing", "Acknowledged"}

\* the step is the return of _queue_action to caller t
QueueActionReturns(t) == cpc[t] = "q_check" /\ cpc'[t] = "idle"

\* C23: when an enqueue made while nothing is executing returns, its command
\* has been popped and written to the transport; an enqueue made while a
\* command is executing appends and writes nothing.  (One caller thread: the
\* command of the returning call is the one appended last.)
C23_EnqueueStartsSynchronously ==
    [][/\ \A t \in Callers :
            (QueueActionReturns(t) /\ connected) =>
                IF ~executing
                THEN \E i \in 1..Len(wire') : wire'[i].cmd.tag = appended
                ELSE wire' = wire
       /\ (gui_calls' = gui_calls + 1) =>
            IF ~waiting_response
            THEN \E i \in 1..Len(gui_wire') : gui_wire'[i].tag = gui_calls'
            ELSE gui_wire' = gui_wire]_vars

\* C24: in an attempt whose capture returned None the planner is not called
\* and the driver is not actuated: the attempt ends there, as a failure that
\* counts against the budget
C24_NoneCaptureIsRetryable ==
    [][(Predict1 \/ Act1) => mcur.shot # "none"]_vars

(***************************************************************************)
(* One client thread uses a WiFiDriver: it connects, disconnects and makes *)
(* motion calls, one after the other                                       *)
(***************************************************************************)
MaxSessCalls == 2     \* motion calls made by the client thread

\* tap(0.5, 0.5), double_tap(0.5, 0.5), long_press(0.5, 0.5),
\* swipe(0.0, 0.0, 1.0, 1.0)
SessGestures ==
    { Gesture(op, 50000, 50000, 0, 0) : op \in {"tap", "double_tap", "long_press"} }
    \cup { Gesture("swipe", 0, 0, NormScale, NormScale) }

SessConnect == wpc[1] = "idle" /\ WConnect
SessDisconnect == wpc[1] = "idle" /\ WDisconnect
SessCall == wcalls < MaxSessCalls /\ \E g \in SessGestures : WifiCall(1, g)
SessReset == wcalls < MaxSessCalls /\ WReset(1)

SessNext ==
    \/ SessConnect
    \/ SessDisconnect
    \/ SessCall
    \/ SessReset
    \/ WTapGet(1)
    \/ WLongPressGet(1)
    \/ WDoubleTapGet(1)
    \/ WSwipeGet(1)
    \/ WSwipeSleep(1)

SessSpec == Init /\ [][SessNext]_vars

\* C25: a GET /test_move is sent only while the driver is logged in, and a
\* motion call made while it is not logged in returns False and sends no
\* request
C25_MotionRequiresLogin ==
    [][/\ Len(http') > Len(http) => is_connected
       /\ \A t \in Callers :
            (~wlast'[t].up /\ wlast'[t].ret \notin {"", "raised"})
                => (wlast'[t].ret = "False" /\ Len(http') = wlast'[t].h0)]_vars

(***************************************************************************)
(* The runtime of StepSpec with a second thread that may call stop() while *)
(* a script runs                                                           *)
(***************************************************************************)
StopNext == StepNext \/ Stop

StopSpec == StepSpecInit /\ [][StopNext]_vars

\* C26: after stop() was called during a run, no further step() of that run
\* reaches the step controller: total_steps, which execute_step increments
\* on entry, stays what it was (a step in progress had been counted already)
C26_StopHaltsAtStepBoundary ==
    (halted.hit /\ halted.run = runs) => total_steps = halted.steps

(***************************************************************************)
(* The first runtime built with a small max_steps, and a second thread     *)
(* that may call stop() while the code runs                                *)
(***************************************************************************)
MaxStepLimit == 2     \* largest max_steps

LimitInit ==
    /\ DrvInit /\ WifiInit /\ StepInit(DefaultMaxRetries) /\ GuiInit
    /\ XfInit /\ SbxInit /\ HaltInit
    /\ \E n \in 1..MaxStepLimit : MlInitOf(n)

LimitNext == MicroNext \/ Stop1

LimitSpec == LimitInit /\ [][LimitNext]_vars

\* C27: within one execute() the step function is called at most max_steps
\* times (each call that came back left one ExecutionLog), and the
\* total_steps of the result is at most max_steps
C27_StepsBoundedByMaxSteps ==
    /\ Len(logs) + (IF mpc # "none" THEN 1 ELSE 0) <= max_steps
    /\ result1.done => result1.total_steps <= max_steps

(***************************************************************************)
(* Two threads give taps to one connected SerialDriver whose device stays  *)
(* silent: every wait of an executor ends by its timeout                   *)
(***************************************************************************)
RaceCall(t) ==
    /\ ncalls < MaxRaceCmds
    /\ DriverCall(t, Gesture("tap", 50000, 50000, 0, 0))

RaceNext ==
    \/ \E t \in Callers : RaceCall(t)
    \/ \E t \in Callers : CallerStep(t)
    \/ \E e \in Execs : SilentExecStep(e)

RaceSpec == Init /\ [][RaceNext]_vars

\* a command sits in the queue while no call is in progress and no executor
\* thread is alive
Stranded ==
    /\ command_queue # <<>>
    /\ \A t \in Callers : cpc[t] = "idle"
    /\ \A e \in Execs : epc[e] \in {"unborn", "returned", "crashed"}

\* C28: no command is written to the transport twice, and no command is left
\* in the queue with no executor running
C28_ConsumedExactlyOnce ==
    /\ \A i \in 1..Len(wire) : \A j \in 1..Len(wire) :
          (wire[i].cmd.tag = wire[j].cmd.tag) => i = j
    /\ ~Stranded

\* the commands that were given a sequence id: read by a caller, queued,
\* popped or written
Numbered == {c \in HeldCmds : c.id # 0}

\* C31: under concurrent _queue_action calls no two commands carry the same
\* sequence id, and once every call has returned each value queue_seq went
\* through belongs to exactly one accepted command
C31_SequenceIdsAreUnique ==
    /\ \A c \in Numbered : \A d \in Numbered :
          (c.id = d.id /\ c.tag # 0 /\ d.tag # 0) => c.tag = d.tag
    /\ (\A t \in Callers : cpc[t] = "idle") => queue_seq = appended + 1

\* the lines of gestures whose work area was replaced by set_work_area between
\* the enqueue and the write
Recalibrated ==
    {i \in 1..Len(wire) :
        /\ wire[i].w # wire[i].cmd.wk
        /\ \A v \in CmdCoords(wire[i].cmd) : InRange(v)}

\* C32: a gesture queued before set_work_area and written after it still
\* carries, for both endpoints, the normalized coordinates its caller passed
C32_QueuedGestureKeepsCalibration ==
    \A i \in Recalibrated :
        LET l == wire[i]
            f == NormScale \div l.scale
        IN  /\ l.nx * f = l.cmd.cx /\ l.ny * f = l.cmd.cy
            /\ l.kind = "drag" => (l.nx2 * f = l.cmd.cx2 /\ l.ny2 * f = l.cmd.cy2)

\* C33: the counters returned by execute() describe that script only: 'steps'
\* is the number of step() calls made since this execute() began and
\* 'retries' the number of retries made since then, whatever ran earlier
C33_CountersDescribeOneScript ==
    result.done =>
        /\ result.steps = total_steps - before.steps
        /\ result.retries = total_retries - before.retries

\* C34: execute_step returns success = True only after an action was executed
\* on the driver and verified; a step that acted not at all never reports
\* success
C34_SuccessOnlyWhenVerified ==
    (mlast.how = "returned" /\ mlast.success) => mlast.acts >= 1

====
